---------------------------- MODULE Spec2Model ----------------------------
(***************************************************************************)
(* The example scripts of pymapdl-examples as state machines.              *)
(*                                                                         *)
(* Every script is a flat sequence of calls on one PyMAPDL client object.  *)
(* A script is modelled as the sequence of its calls (in execution order,  *)
(* loops unrolled), a program counter into it, the state of the client     *)
(* object (launched, exited, commands stored by non_interactive) and the   *)
(* part of the solver's state that the scripts' commands address.          *)
(*                                                                         *)
(* The class Create of VM8 is modelled on its own (SpecCreate), driven by  *)
(* arbitrary constructor calls, property assignments and method calls.     *)
(***************************************************************************)
EXTENDS Integers, Sequences, FiniteSets, TLC

(***************************************************************************)
(* Arguments of a call, as written in the source.                          *)
(***************************************************************************)
\* an integer argument
I(n) == <<"i", n>>

\* a string argument
S(s) == <<"s", s>>

\* a floating point literal, kept as it is written
F(t) == <<"f", t>>

\* an expression whose value is only known when the script runs
X(t) == <<"x", t>>

\* a keyword argument name=v
K(name, v) == <<"k", name, v>>

\* one call: the source line, the client method and its arguments; ret
\* names the variables that receive the value of the call
C(line, op, args) ==
  [line |-> line, op |-> op, args |-> args, ret |-> << >>, unpack |-> FALSE]

\* target = call
Let(target, c) == [c EXCEPT !.ret = <<target>>]

\* t1, t2, ... = call
Unpack(targets, c) == [c EXCEPT !.ret = targets, !.unpack = TRUE]

(***************************************************************************)
(* The scripts: one record per call, in the order the interpreter makes    *)
(* them.                                                                   *)
(***************************************************************************)
\* examples/tech-demos/28-example-technology-showcase-tecfricstir.py
TD28 ==
  <<
    Let("mapdl", C(42, "launch_mapdl", <<>>)),
    C(43, "print", <<>>),
    C(45, "clear", <<>>),
    C(46, "prep7", <<>>),
    C(47, "cdread", <<S("db"), X("cdbfile")>>),
    C(71, "n", <<I(1), I(0), I(0), F("0.01524")>>),
    C(73, "block", <<I(0), F("0.03175"), F("-0.00762"), F("0.06858"), I(0), F("-0.00318")>>),
    C(74, "block", <<I(0), F("-0.03175"), F("-0.00762"), F("0.06858"), I(0), F("-0.00318")>>),
    C(76, "cyl4", <<I(0), I(0), F("0.00762"), I(0), F("0.00762"), I(90), F("0.01524")>>),
    C(77, "cyl4", <<I(0), I(0), F("0.00762"), I(90), F("0.00762"), I(180), F("0.01524")>>),
    C(78, "cyl4", <<I(0), I(0), F("0.00762"), I(180), F("0.00762"), I(270), F("0.01524")>>),
    C(79, "cyl4", <<I(0), I(0), F("0.00762"), I(270), F("0.00762"), I(360), F("0.01524")>>),
    C(80, "vglue", <<I(3), I(4), I(5), I(6)>>),
    C(83, "geometry.areas.plot", <<>>),
    C(87, "allsel", <<>>),
    C(89, "mesh.grid", <<>>),
    C(93, "allsel", <<S("all")>>),
    C(98, "esel", <<S("s"), S("ename"), S(""), I(170)>>),
    C(99, "mesh._grid", <<>>),
    C(99, "mesh._grid.linear_copy", <<>>),
    C(100, "print", <<>>),
    C(98, "esel", <<S("s"), S("ename"), S(""), I(174)>>),
    C(99, "mesh._grid", <<>>),
    C(99, "mesh._grid.linear_copy", <<>>),
    C(100, "print", <<>>),
    C(113, "allsel", <<S("all")>>),
    C(114, "esel", <<S("s"), S("mat"), S(""), I(2)>>),
    C(115, "nsle", <<S("s")>>),
    Let("pl", C(117, "eplot", <<K("plot_bc", X("True")), K("bc_glyph_size", F("0.002")), K("return_plotter", X("True")), K("show_axes", X("False")), K("theme", X("mytheme"))>>)),
    C(127, "esel", <<S("s"), S("mat"), S(""), I(2)>>),
    C(128, "esel", <<S("r"), S("ename"), S(""), I(170)>>),
    C(129, "mesh._grid", <<>>),
    C(129, "mesh._grid.linear_copy", <<>>),
    C(130, "mesh.n_elem", <<>>),
    C(131, "print", <<>>),
    C(133, "mesh.grid", <<>>),
    C(127, "esel", <<S("s"), S("mat"), S(""), I(2)>>),
    C(128, "esel", <<S("r"), S("ename"), S(""), I(174)>>),
    C(129, "mesh._grid", <<>>),
    C(129, "mesh._grid.linear_copy", <<>>),
    C(130, "mesh.n_elem", <<>>),
    C(131, "print", <<>>),
    C(133, "mesh.grid", <<>>)
  >>

\* examples/tech-demos/td-62-example-technology-showcase-inverse_cardiovascular.py
TD62 ==
  <<
    Let("mapdl", C(63, "launch_mapdl", <<K("loglevel", S("WARNING")), K("print_com", X("True"))>>)),
    C(73, "prep7", <<>>),
    C(77, "cdread", <<S("comb"), K("fname", X("aorta_mesh_file"))>>),
    C(81, "allsel", <<S("all"), S("all")>>),
    C(90, "eplot", <<K("background", S("w"))>>),
    C(100, "finish", <<>>),
    C(106, "slashsolu", <<>>),
    C(126, "antype", <<I(0)>>),
    C(130, "nlgeom", <<S("on")>>),
    C(135, "eqslv", <<S("sparse"), K("keepfile", S("1"))>>),
    C(137, "cntr", <<S("print"), I(1)>>),
    C(140, "dmpoption", <<S("emat"), S("no")>>),
    C(141, "dmpoption", <<S("esav"), S("no")>>),
    C(146, "run", <<S("invopt,on")>>),
    C(150, "nldiag", <<S("cont"), S("iter")>>),
    C(151, "rescontrol", <<S("define"), S("last"), S("last"), S(""), S("dele")>>),
    C(155, "esel", <<S("u"), S("ename"), S(""), I(153), I(156)>>),
    C(156, "sf", <<S("_CM968PRES"), S("pres"), S("%_loadvari968 %")>>),
    C(157, "esel", <<S("all")>>),
    C(158, "nopr", <<>>),
    C(159, "gopr", <<>>),
    C(163, "autots", <<S("on")>>),
    C(169, "nsubst", <<K("nsbstp", S("2")), K("nsbmx", S("2")), K("nsbmn", S("2")), K("carry", S("OFF"))>>),
    C(173, "time", <<K("time", S("1.0"))>>),
    C(177, "outres", <<S("erase")>>),
    C(178, "outres", <<S("all"), S("none")>>),
    C(179, "outres", <<S("nsol"), S("all")>>),
    C(180, "outres", <<S("rsol"), S("all")>>),
    C(181, "outres", <<S("eangl"), S("all")>>),
    C(182, "outres", <<S("etmp"), S("all")>>),
    C(183, "outres", <<S("veng"), S("all")>>),
    C(184, "outres", <<S("strs"), S("all")>>),
    C(185, "outres", <<S("epel"), S("all")>>),
    C(186, "outres", <<S("eppl"), S("all")>>),
    C(187, "outres", <<S("cont"), S("all")>>),
    C(199, "autots", <<S("on")>>),
    C(205, "nsubst", <<K("nsbstp", S("2")), K("nsbmx", S("2")), K("nsbmn", S("2")), K("carry", S("OFF"))>>),
    C(209, "time", <<K("time", S("2.0"))>>),
    C(213, "run", <<S("invopt,off")>>),
    C(217, "outres", <<S("erase")>>),
    C(218, "outres", <<S("all"), S("none")>>),
    C(219, "outres", <<S("nsol"), S("all")>>),
    C(220, "outres", <<S("rsol"), S("all")>>),
    C(221, "outres", <<S("eangl"), S("all")>>),
    C(222, "outres", <<S("etmp"), S("all")>>),
    C(223, "outres", <<S("veng"), S("all")>>),
    C(224, "outres", <<S("strs"), S("all")>>),
    C(225, "outres", <<S("epel"), S("all")>>),
    C(226, "outres", <<S("eppl"), S("all")>>),
    C(227, "outres", <<S("cont"), S("all")>>),
    C(239, "finish", <<>>),
    C(245, "post1", <<>>),
    C(249, "rgb", <<S("index"), I(100), I(100), I(100), I(0)>>),
    C(250, "rgb", <<S("index"), I(80), I(80), I(80), I(13)>>),
    C(251, "rgb", <<S("index"), I(60), I(60), I(60), I(14)>>),
    C(252, "rgb", <<S("index"), I(0), I(0), I(0), I(15)>>),
    C(256, "graphics", <<S("power")>>),
    C(260, "set", <<K("lstep", S("1"))>>),
    C(262, "show", <<S("png"), S("rev")>>),
    C(269, "plnsol", <<S("u"), S("sum"), I(1), I(1)>>),
    C(270, "get", <<S("max_usum_first_loadstep"), S("plnsol"), I(0), S("max")>>),
    C(277, "plnsol", <<S("s"), I(1)>>),
    C(278, "get", <<S("max_s1_first_loadstep"), S("plnsol"), I(0), S("max")>>),
    C(282, "plnsol", <<S("epel"), I(1)>>),
    C(283, "get", <<S("max_epel1_first_loadstep"), S("plnsol"), I(0), S("max")>>),
    C(285, "show", <<S("close")>>),
    C(289, "set", <<K("lstep", S("last"))>>),
    C(291, "show", <<S("png"), S("rev")>>),
    C(298, "plnsol", <<S("u"), S("sum"), I(1), I(1)>>),
    C(299, "get", <<S("max_usum_second_loadstep"), S("plnsol"), I(0), S("max")>>),
    C(303, "plnsol", <<S("s"), I(1)>>),
    C(304, "get", <<S("max_s1_second_loadstep"), S("plnsol"), I(0), S("max")>>),
    C(308, "plnsol", <<S("epel"), I(1)>>),
    C(309, "get", <<S("max_epel1_second_loadstep"), S("plnsol"), I(0), S("max")>>),
    C(311, "show", <<S("close")>>),
    C(315, "starstatus", <<>>),
    C(321, "finish", <<>>),
    C(327, "exit", <<>>)
  >>

\* examples/verif-manual/vm-001-statically_indeterminate_reaction_force_analysis.py
VM1 ==
  <<
    Let("mapdl", C(69, "launch_mapdl", <<>>)),
    C(70, "clear", <<>>),
    C(73, "verify", <<>>),
    C(74, "prep7", <<>>),
    C(82, "antype", <<S("STATIC")>>),
    C(83, "et", <<I(1), S("LINK180")>>),
    C(84, "sectype", <<I(1), S("LINK")>>),
    C(85, "secdata", <<I(1)>>),
    C(86, "mp", <<S("EX"), I(1), F("30e6")>>),
    C(94, "n", <<I(1), I(0), I(0)>>),
    C(95, "n", <<I(2), I(0), I(4)>>),
    C(96, "n", <<I(3), I(0), I(7)>>),
    C(97, "n", <<I(4), I(0), I(10)>>),
    C(98, "e", <<I(1), I(2)>>),
    C(99, "egen", <<I(3), I(1), I(1)>>),
    C(112, "d", <<I(1), S("ALL"), S(""), S(""), I(4), I(3)>>),
    C(113, "f", <<I(2), S("FY"), I(-500)>>),
    C(114, "f", <<I(3), S("FY"), I(-1000)>>),
    C(115, "finish", <<>>),
    C(123, "run", <<S("/SOLU")>>),
    Let("out", C(124, "solve", <<>>)),
    C(125, "finish", <<>>),
    C(134, "post1", <<>>),
    C(135, "nsel", <<S("S"), S("LOC"), S("Y"), I(10)>>),
    C(136, "fsum", <<>>),
    Let("reaction_1", C(137, "get", <<S("REAC_1"), S("FSUM"), S(""), S("ITEM"), S("FY")>>)),
    C(138, "nsel", <<S("S"), S("LOC"), S("Y"), I(0)>>),
    C(139, "fsum", <<>>),
    Let("reaction_2", C(140, "get", <<S("REAC_2"), S("FSUM"), S(""), S("ITEM"), S("FY")>>)),
    C(163, "print", <<>>),
    C(167, "exit", <<>>)
  >>

\* examples/verif-manual/vm-008-parametric_calculation.py
VM8 ==
  <<
    Let("mapdl", C(86, "launch_mapdl", <<>>)),
    C(94, "clear", <<>>),
    C(95, "verify", <<>>),
    C(96, "prep7", <<K("mute", X("True"))>>),
    Let("kp1", C(116, "k", <<K("npt", I(3)), K("x", X("self.p1[0]")), K("y", X("self.p1[1]")), K("z", X("self.p1[2]"))>>)),
    Let("kp2", C(117, "k", <<K("npt", I(4)), K("x", X("self.p2[0]")), K("y", X("self.p2[1]")), K("z", X("self.p2[2]"))>>)),
    Unpack(<<"dist_kp", "kx", "ky", "kz">>, C(120, "kdist", <<X("kp1"), X("kp2")>>)),
    C(123, "kplot", <<K("show_keypoint_numbering", X("True")), K("vtk", X("True")), K("background", S("grey")), K("show_bounds", X("True")), K("font_size", I(26))>>),
    C(192, "print", <<>>),
    C(195, "klist", <<>>),
    C(195, "print", <<>>),
    Let("node1", C(135, "n", <<K("node", I(1)), K("x", X("self.p1[0]")), K("y", X("self.p1[1]")), K("z", X("self.p1[2]"))>>)),
    Let("node2", C(136, "n", <<K("node", I(2)), K("x", X("self.p2[0]")), K("y", X("self.p2[1]")), K("z", X("self.p2[2]"))>>)),
    Unpack(<<"dist_node", "node_x", "node_y", "node_z">>, C(139, "ndist", <<X("node1"), X("node2")>>)),
    C(142, "nplot", <<K("nnum", X("True")), K("vtk", X("True")), K("color", S("grey")), K("show_bounds", X("True")), K("font_size", I(26))>>),
    C(211, "print", <<>>),
    C(214, "nlist", <<>>),
    C(214, "print", <<>>),
    C(258, "exit", <<>>)
  >>

\* examples/verif-manual/vm-011-residual-stress-problem.py
VM11 ==
  <<
    Let("mapdl", C(90, "launch_mapdl", <<>>)),
    C(91, "clear", <<>>),
    C(98, "verify", <<S("vm11")>>),
    C(99, "prep7", <<>>),
    C(100, "title", <<S("VM11 RESIDUAL STRESS PROBLEM"), K("mute", X("True"))>>),
    C(108, "antype", <<S("STATIC")>>),
    C(111, "et", <<I(1), S("LINK180")>>),
    C(112, "sectype", <<I(1), S("LINK")>>),
    C(113, "secdata", <<I(1)>>),
    C(114, "mp", <<S("EX"), I(1), F("30e6")>>),
    C(115, "tb", <<S("PLAS"), I(1), K("tbopt", S("BKIN"))>>),
    C(116, "tbtemp", <<I(100)>>),
    C(117, "tbdata", <<I(1), I(30000)>>),
    C(120, "mplist", <<>>),
    C(120, "print", <<>>),
    C(130, "n", <<I(1), F("-57.735026918962575")>>),
    C(131, "n", <<I(3), F("57.735026918962575")>>),
    C(132, "fill", <<>>),
    C(133, "n", <<I(4), K("y", I(-100)), K("mute", X("True"))>>),
    C(139, "e", <<I(1), I(4)>>),
    C(140, "e", <<I(2), I(4)>>),
    C(141, "e", <<I(3), I(4)>>),
    C(142, "outpr", <<K("freq", I(1))>>),
    C(143, "d", <<I(1), S("ALL"), K("nend", I(3))>>),
    C(144, "f", <<I(4), S("FY"), F("-51961.5")>>),
    C(145, "finish", <<K("mute", X("True"))>>),
    C(146, "eplot", <<>>),
    C(152, "slashsolu", <<>>),
    C(153, "solve", <<>>),
    C(154, "finish", <<K("mute", X("True"))>>),
    C(162, "post1", <<>>),
    Let("bot_node", C(165, "queries.node", <<I(0), I(-100), I(0)>>)),
    Let("def_node", C(166, "get_value", <<S("NODE"), X("bot_node"), S("U"), S("Y")>>)),
    C(167, "finish", <<>>),
    C(168, "slashsolu", <<>>),
    C(169, "autots", <<S("ON")>>),
    C(170, "nsubst", <<I(10)>>),
    C(171, "outpr", <<K("freq", I(10))>>),
    C(172, "f", <<I(4), S("FY"), F("-81961.5")>>),
    C(173, "solve", <<>>),
    C(174, "nsubst", <<I(5)>>),
    C(175, "outpr", <<K("freq", I(5))>>),
    C(176, "fdele", <<I(4), S("FY")>>),
    C(177, "solve", <<>>),
    C(178, "finish", <<>>),
    C(181, "post1", <<>>),
    C(182, "etable", <<S("STRS"), S("LS"), I(1)>>),
    Let("strss", C(183, "get_value", <<S("ELEM"), I(2), S("ETAB"), S("STRS")>>)),
    C(191, "print", <<>>),
    C(193, "finish", <<>>),
    C(197, "exit", <<>>)
  >>

\* examples/verif-manual/vm-012-combined-bending-and-torsion.py
VM12 ==
  <<
    Let("mapdl", C(81, "launch_mapdl", <<K("loglevel", S("WARNING")), K("print_com", X("True"))>>)),
    C(82, "clear", <<>>),
    C(88, "verify", <<S("vm12")>>),
    C(89, "prep7", <<>>),
    C(91, "antype", <<S("STATIC")>>),
    C(92, "et", <<I(1), S("PIPE16")>>),
    C(93, "r", <<I(1), F("4.67017"), F("2.33508")>>),
    C(94, "mp", <<S("EX"), I(1), F("30e6")>>),
    C(95, "mp", <<S("NUXY"), I(1), F("0.3")>>),
    C(96, "n", <<I(1)>>),
    C(97, "n", <<I(2), S(""), S(""), I(300)>>),
    C(98, "e", <<I(1), I(2)>>),
    C(99, "d", <<I(1), S("ALL")>>),
    C(100, "f", <<I(2), S("MZ"), I(9000)>>),
    C(101, "f", <<I(2), S("FX"), I(-250)>>),
    C(102, "finish", <<>>),
    C(108, "slashsolu", <<>>),
    C(109, "outpr", <<S("BASIC"), I(1)>>),
    C(111, "solve", <<>>),
    C(112, "finish", <<>>),
    C(113, "post1", <<>>),
    C(114, "etable", <<S("P_STRS"), S("NMISC"), I(86)>>),
    C(115, "etable", <<S("SHR"), S("NMISC"), I(88)>>),
    Let("p_stress", C(122, "get", <<S("P_STRESS"), S("ELEM"), I(1), S("ETAB"), S("P_STRS")>>)),
    Let("shear", C(123, "get", <<S("SHEAR"), S("ELEM"), I(1), S("ETAB"), S("SHR")>>)),
    C(141, "print", <<>>),
    C(148, "clear", <<S("nostart")>>),
    C(149, "prep7", <<>>),
    C(150, "run", <<S("C***     USING PIPE288")>>),
    C(151, "antype", <<S("STATIC")>>),
    C(152, "et", <<I(1), S("PIPE288"), S(""), S(""), S(""), I(2)>>),
    C(153, "sectype", <<I(1), S("PIPE")>>),
    C(154, "secdata", <<F("4.67017"), F("2.33508")>>),
    C(155, "keyopt", <<I(1), I(3), I(3)>>),
    C(156, "mp", <<S("EX"), I(1), F("30e6")>>),
    C(157, "mp", <<S("NUXY"), I(1), F("0.3")>>),
    C(158, "n", <<I(1)>>),
    C(159, "n", <<I(2), S(""), S(""), I(300)>>),
    C(160, "e", <<I(1), I(2)>>),
    C(161, "d", <<I(1), S("ALL")>>),
    C(162, "f", <<I(2), S("MZ"), I(9000)>>),
    C(163, "f", <<I(2), S("FX"), I(-250)>>),
    C(164, "finish", <<>>),
    C(166, "allsel", <<>>),
    C(167, "eplot", <<>>),
    C(174, "slashsolu", <<>>),
    C(175, "outpr", <<S("BASIC"), I(1)>>),
    C(176, "solve", <<>>),
    C(177, "finish", <<>>),
    C(183, "post1", <<>>),
    C(184, "set", <<S("LAST")>>),
    C(185, "graphics", <<S("POWER")>>),
    C(186, "eshape", <<I(1)>>),
    C(187, "view", <<I(1), I(1), I(1), I(1)>>),
    C(189, "show", <<K("option", S("REV")), K("fname", S("png"))>>),
    C(190, "plesol", <<S("S"), I(1)>>),
    C(191, "show", <<S("close")>>),
    Let("p_stress", C(193, "get", <<S("P_STRESS"), S("PLNSOL"), I(0), S("MAX")>>)),
    C(195, "show", <<K("option", S("REV")), K("fname", S("png"))>>),
    C(196, "plesol", <<S("S"), S("INT")>>),
    C(197, "show", <<S("close")>>),
    Let("shear", C(199, "get", <<S("SHEAR"), S("PLNSOL"), I(0), S("MAX")>>)),
    C(218, "print", <<>>),
    C(220, "finish", <<>>),
    C(221, "starlist", <<S("vm12"), S("vrt")>>),
    C(225, "exit", <<>>)
  >>

\* examples/verif-manual/vm-013.py
VM13 ==
  <<
    Let("mapdl", C(74, "launch_mapdl", <<K("loglevel", S("WARNING")), K("print_com", X("True")), K("remove_temp_dir_on_exit", X("True"))>>)),
    C(77, "clear", <<>>),
    C(80, "com", <<S("ANSYS MEDIA REL. 2022R2 (05/13/2022) REF. VERIF. MANUAL: REL. 2022R2")>>),
    C(83, "finish", <<>>),
    C(86, "verify", <<S("vm13")>>),
    C(89, "title", <<S("VM13 CYLINDRICAL SHELL UNDER PRESSURE")>>),
    C(92, "prep7", <<K("mute", X("True"))>>),
    C(99, "et", <<I(1), S("SHELL208")>>),
    C(100, "sectype", <<I(1), S("SHELL")>>),
    C(101, "secdata", <<I(1)>>),
    C(102, "secnum", <<I(1)>>),
    C(110, "mp", <<S("EX"), I(1), F("30e6")>>),
    C(111, "mp", <<S("NUXY"), I(1), F("0.3")>>),
    C(119, "n", <<I(1), I(60)>>),
    C(120, "n", <<I(2), I(60), I(10)>>),
    C(123, "e", <<I(1), I(2)>>),
    C(136, "cp", <<I(1), S("UX"), I(1), I(2)>>),
    C(137, "d", <<I(1), S("UY"), S(""), S(""), S(""), S(""), S("ROTZ")>>),
    C(138, "d", <<I(2), S("ROTZ")>>),
    C(140, "f", <<I(2), S("FY"), F("5654866.8")>>),
    C(141, "sfe", <<I(1), I(1), S("PRES"), S(""), I(500)>>),
    C(144, "allsel", <<>>),
    C(145, "eplot", <<>>),
    C(148, "finish", <<>>),
    C(155, "slashsolu", <<>>),
    C(157, "antype", <<S("STATIC")>>),
    C(159, "outpr", <<S("ALL"), I(1)>>),
    C(161, "solve", <<>>),
    C(163, "finish", <<>>),
    C(170, "post1", <<>>),
    C(173, "etable", <<S("STRS_Y"), S("S"), S("Y")>>),
    C(174, "etable", <<S("STRS_Z"), S("S"), S("Z")>>),
    Let("stress_y", C(177, "get", <<S("STRSS_Y"), S("ELEM"), I(1), S("ETAB"), S("STRS_Y")>>)),
    Let("stress_z", C(178, "get", <<S("STRSS_Z"), S("ELEM"), I(1), S("ETAB"), S("STRS_Z")>>)),
    C(194, "print", <<>>),
    C(199, "finish", <<>>),
    C(204, "exit", <<>>)
  >>

\* examples/verif-manual/vm-014.py
VM14 ==
  <<
    Let("mapdl", C(79, "launch_mapdl", <<K("loglevel", S("WARNING")), K("print_com", X("True")), K("remove_temp_dir_on_exit", X("True"))>>)),
    C(82, "clear", <<>>),
    C(85, "com", <<S("ANSYS MEDIA REL. 2022R2 (05/13/2022) REF. VERIF. MANUAL: REL. 2022R2")>>),
    C(88, "finish", <<>>),
    C(91, "run", <<S("/VERIFY,VM14")>>),
    C(94, "title", <<S("VM14 LARGE DEFLECTION ECCENTRIC COMPRESSION OF SLENDER COLUMN")>>),
    C(97, "prep7", <<K("mute", X("True"))>>),
    C(104, "et", <<I(1), S("BEAM188"), S(""), S(""), I(3)>>),
    C(105, "sectype", <<I(1), S("BEAM"), S("CHAN")>>),
    C(106, "secdata", <<F("2.26"), F("2.26"), I(8), F("0.39"), F("0.39"), F("0.22")>>),
    C(107, "secoffset", <<S("USER"), S(""), F("0.6465")>>),
    C(115, "mp", <<S("EX"), I(1), F("30e6")>>),
    C(116, "mp", <<S("PRXY"), I(1), F("0.3")>>),
    C(124, "n", <<I(1)>>),
    C(125, "n", <<I(5), S(""), I(60)>>),
    C(128, "fill", <<>>),
    C(131, "e", <<I(1), I(2)>>),
    C(134, "egen", <<I(4), I(1), I(1)>>),
    C(146, "d", <<I(1), S("ALL")>>),
    C(147, "f", <<I(5), S("FY"), I(-4000)>>),
    C(148, "dsym", <<S("SYMM"), S("Z")>>),
    C(151, "allsel", <<>>),
    C(153, "eplot", <<>>),
    C(156, "finish", <<>>),
    C(163, "slashsolu", <<>>),
    C(166, "nlgeom", <<S("ON")>>),
    C(169, "cnvtol", <<S("F"), S(""), F("1e-4")>>),
    C(170, "cnvtol", <<S("M"), S(""), F("1e-4")>>),
    C(172, "solve", <<>>),
    C(173, "finish", <<>>),
    C(180, "post1", <<>>),
    Let("end_node", C(186, "queries.node", <<I(0), I(60), I(0)>>)),
    Let("deflection", C(191, "get", <<S("DEF"), S("NODE"), X("end_node"), S("U"), S("X")>>)),
    C(193, "get", <<S("STS_TENS"), S("SECR"), I(1), S("S"), S("X"), S("MAX")>>),
    C(196, "get", <<S("STS_COMP"), S("SECR"), I(1), S("S"), S("X"), S("MIN")>>),
    C(216, "print", <<>>),
    C(221, "finish", <<>>),
    C(226, "exit", <<>>)
  >>

\* examples/verif-manual/vm-015.py
VM15 ==
  <<
    Let("mapdl", C(79, "launch_mapdl", <<K("loglevel", S("WARNING")), K("print_com", X("True")), K("remove_temp_dir_on_exit", X("True"))>>)),
    C(82, "clear", <<>>),
    C(85, "com", <<S("ANSYS MEDIA REL. 2022R2 (05/13/2022) REF. VERIF. MANUAL: REL. 2022R2")>>),
    C(88, "finish", <<>>),
    C(91, "run", <<S("/VERIFY,VM15")>>),
    C(94, "title", <<S("VM15 BENDING OF A CIRCULAR PLATE USING AXISYMMETRIC SHELL ELEMENTS")>>),
    C(97, "prep7", <<K("mute", X("True"))>>),
    C(105, "et", <<I(1), S("SHELL208"), S(""), S(""), I(2)>>),
    C(106, "sectype", <<I(1), S("SHELL")>>),
    C(107, "secdata", <<I(1), I(1)>>),
    C(108, "secnum", <<I(1)>>),
    C(116, "mp", <<S("EX"), I(1), F("30e6")>>),
    C(117, "mp", <<S("NUXY"), I(1), F("0.3")>>),
    C(125, "n", <<I(1)>>),
    C(126, "n", <<I(11), I(40)>>),
    C(127, "n", <<I(6), I(20)>>),
    C(130, "fill", <<I(1), I(6), I(4), S(""), S(""), S(""), S(""), I(20)>>),
    C(131, "fill", <<I(6), I(11), I(4), S(""), S(""), S(""), S(""), F("0.05")>>),
    C(134, "e", <<I(1), I(2)>>),
    C(137, "egen", <<I(10), I(1), I(-1)>>),
    C(140, "allsel", <<>>),
    C(142, "eplot", <<>>),
    C(145, "finish", <<>>),
    C(152, "slashsolu", <<>>),
    C(155, "antype", <<S("STATIC")>>),
    C(158, "outpr", <<S(""), I(1)>>),
    C(172, "d", <<I(1), S("UX"), S(""), S(""), S(""), S("ROTZ")>>),
    C(173, "d", <<I(11), S("ALL")>>),
    C(174, "sfe", <<S("ALL"), I(1), S("PRES"), S(""), I(6)>>),
    C(177, "solve", <<>>),
    C(181, "f", <<I(1), S("FY"), F("-7539.82")>>),
    C(182, "sfe", <<S("ALL"), I(1), S("PRES"), S(""), I(0)>>),
    C(187, "solve", <<>>),
    C(191, "ddele", <<I(11), S("ROTZ")>>),
    C(192, "f", <<I(1), S("FY")>>),
    C(193, "sfe", <<S("ALL"), I(1), S("PRES"), S(""), F("1.5")>>),
    C(196, "solve", <<>>),
    C(199, "finish", <<>>),
    C(206, "post1", <<>>),
    C(212, "window", <<I(1), I(-1), I(1), I(-1), F("-0.333")>>),
    C(215, "gopr", <<>>),
    C(218, "set", <<I(1), I(1)>>),
    C(220, "pldisp", <<I(1)>>),
    C(221, "window", <<I(1), S("OFF")>>),
    C(222, "window", <<I(2), I(-1), I(1), F("-0.333"), F("0.333"), I(1)>>),
    C(225, "run", <<S("/NOERASE")>>),
    Let("MID_NODE", C(232, "queries.node", <<I(0), I(0), I(0)>>)),
    Let("def_c1", C(239, "get", <<S("DEF_C1"), S("NODE"), X("MID_NODE"), S("U"), S("Y")>>)),
    C(241, "etable", <<S("STRS"), S("S"), S("X")>>),
    Let("strss_c1", C(243, "get", <<S("STRSS_C1"), S("ELEM"), I(10), S("ETAB"), S("STRS")>>)),
    C(246, "set", <<I(2), I(1)>>),
    C(248, "pldisp", <<>>),
    C(249, "window", <<I(2), S("OFF")>>),
    C(250, "window", <<I(3), I(-1), I(1), F("0.333"), I(1), I(1)>>),
    Let("def_c2", C(253, "get", <<S("DEF_C2"), S("NODE"), X("MID_NODE"), S("U"), S("Y")>>)),
    C(255, "etable", <<S("STRS"), S("S"), S("X")>>),
    Let("strss_c2", C(257, "get", <<S("STRSS_C2"), S("ELEM"), I(10), S("ETAB"), S("STRS")>>)),
    C(260, "set", <<I(3), I(1)>>),
    C(262, "pldisp", <<>>),
    Let("def_c3", C(264, "get", <<S("DEF_C3"), S("NODE"), X("MID_NODE"), S("U"), S("Y")>>)),
    C(266, "etable", <<S("STRS"), S("S"), S("X")>>),
    Let("strss_c3", C(268, "get", <<S("STRSS_C3"), S("ELEM"), I(1), S("ETAB"), S("STRS")>>)),
    C(286, "print", <<>>),
    C(303, "print", <<>>),
    C(304, "print", <<>>),
    C(303, "print", <<>>),
    C(304, "print", <<>>),
    C(303, "print", <<>>),
    C(304, "print", <<>>),
    C(310, "finish", <<>>),
    C(315, "exit", <<>>)
  >>

\* examples/verif-manual/vm-016.py
VM16 ==
  <<
    Let("mapdl", C(79, "launch_mapdl", <<K("loglevel", S("WARNING")), K("print_com", X("True")), K("remove_temp_dir_on_exit", X("True"))>>)),
    C(82, "clear", <<>>),
    C(85, "finish", <<>>),
    C(88, "run", <<S("/VERIFY,VM16")>>),
    C(91, "com", <<S("ANSYS MEDIA REL. 2022R2 (05/13/2022) REF. VERIF. MANUAL: REL. 2022R2")>>),
    C(94, "title", <<S("VM16 BENDING OF A SOLID BEAM (PLANE ELEMENTS)")>>),
    C(100, "prep7", <<K("mute", X("True"))>>),
    C(108, "et", <<I(1), S("PLANE42"), S(""), S(""), S(""), S(""), S(""), I(2)>>),
    C(118, "mp", <<S("EX"), I(1), F("30e6")>>),
    C(119, "mp", <<S("NUXY"), I(1), F("0.0")>>),
    C(127, "n", <<I(1)>>),
    C(128, "n", <<I(6), I(10)>>),
    C(131, "fill", <<>>),
    C(134, "ngen", <<I(2), I(10), I(1), I(6), I(1), S(""), I(2)>>),
    C(137, "e", <<I(1), I(2), I(12), I(11)>>),
    C(140, "egen", <<I(5), I(1), I(1)>>),
    C(143, "allsel", <<>>),
    C(145, "eplot", <<K("background", S("w"))>>),
    C(154, "d", <<I(1), S("ALL"), S(""), S(""), I(11), I(10)>>),
    C(155, "f", <<I(6), S("FX"), I(1000)>>),
    C(156, "f", <<I(16), S("FX"), I(-1000)>>),
    C(159, "finish", <<>>),
    C(165, "slashsolu", <<>>),
    C(168, "antype", <<S("STATIC")>>),
    C(171, "solve", <<>>),
    C(174, "finish", <<>>),
    C(180, "post1", <<>>),
    C(183, "set", <<S("LAST")>>),
    Let("u1", C(186, "get", <<S("U1"), S("NODE"), I(16), S("U"), S("Y")>>)),
    C(188, "graphics", <<S("POWER")>>),
    C(189, "eshape", <<I(1)>>),
    C(190, "view", <<I(1), I(1), I(1), I(1)>>),
    C(193, "show", <<K("option", S("REV")), K("fname", S("png"))>>),
    C(194, "plnsol", <<S("S"), S("X")>>),
    Let("bend_stress1", C(197, "get", <<S("BEND_STRESS1"), S("PLNSOL"), I(0), S("MAX")>>)),
    C(198, "show", <<S("close")>>),
    C(200, "finish", <<>>),
    C(206, "slashsolu", <<>>),
    C(213, "f", <<I(6), S("FX"), S(""), S(""), I(16), I(10)>>),
    C(214, "f", <<I(6), S("FY"), I(150), S(""), I(16), I(10)>>),
    C(217, "solve", <<>>),
    C(219, "finish", <<>>),
    C(225, "post1", <<>>),
    C(228, "set", <<S("LAST")>>),
    Let("u2", C(231, "get", <<S("U2"), S("NODE"), I(16), S("U"), S("Y")>>)),
    C(233, "graphics", <<S("POWER")>>),
    C(234, "eshape", <<I(1)>>),
    C(235, "view", <<I(1), I(1), I(1), I(1)>>),
    C(238, "show", <<K("option", S("REV")), K("fname", S("png"))>>),
    C(239, "plnsol", <<S("S"), S("X")>>),
    Let("bend_stress2", C(242, "get", <<S("BEND_STRESS2"), S("PLNSOL"), I(0), S("MAX")>>)),
    C(243, "show", <<S("close")>>),
    C(264, "print", <<>>),
    C(281, "print", <<>>),
    C(282, "print", <<>>),
    C(281, "print", <<>>),
    C(282, "print", <<>>),
    C(287, "finish", <<>>),
    C(292, "run", <<S("/CLEAR,NOSTART")>>),
    C(298, "prep7", <<>>),
    C(307, "et", <<I(1), S("PLANE182")>>),
    C(309, "keyopt", <<I(1), I(1), I(3)>>),
    C(317, "mp", <<S("EX"), I(1), F("30e6")>>),
    C(318, "mp", <<S("NUXY"), I(1), F("0.0")>>),
    C(327, "n", <<I(1)>>),
    C(328, "n", <<I(6), I(10)>>),
    C(331, "fill", <<>>),
    C(334, "ngen", <<I(2), I(10), I(1), I(6), I(1), S(""), I(2)>>),
    C(337, "e", <<I(1), I(2), I(12), I(11)>>),
    C(340, "egen", <<I(5), I(1), I(1)>>),
    C(343, "allsel", <<>>),
    C(345, "eplot", <<K("background", S("w"))>>),
    C(353, "d", <<I(1), S("ALL"), S(""), S(""), I(11), I(10)>>),
    C(355, "f", <<I(6), S("FX"), I(1000)>>),
    C(356, "f", <<I(16), S("FX"), I(-1000)>>),
    C(359, "finish", <<>>),
    C(365, "slashsolu", <<>>),
    C(368, "antype", <<S("STATIC")>>),
    C(371, "solve", <<>>),
    C(374, "finish", <<>>),
    C(380, "post1", <<>>),
    C(383, "set", <<S("LAST")>>),
    Let("u1", C(386, "get", <<S("U1"), S("NODE"), I(16), S("U"), S("Y")>>)),
    C(388, "graphics", <<S("POWER")>>),
    C(389, "eshape", <<I(1)>>),
    C(390, "view", <<I(1), I(1), I(1), I(1)>>),
    C(393, "show", <<K("option", S("REV")), K("fname", S("png"))>>),
    C(394, "plnsol", <<S("S"), S("X")>>),
    Let("bend_stress1", C(397, "get", <<S("BEND_STRESS1"), S("PLNSOL"), I(0), S("MAX")>>)),
    C(398, "show", <<S("close")>>),
    C(401, "finish", <<>>),
    C(407, "slashsolu", <<>>),
    C(414, "f", <<I(6), S("FX"), S(""), S(""), I(16), I(10)>>),
    C(415, "f", <<I(6), S("FY"), I(150), S(""), I(16), I(10)>>),
    C(418, "solve", <<>>),
    C(420, "finish", <<>>),
    C(426, "post1", <<>>),
    C(429, "set", <<S("LAST")>>),
    Let("u2", C(432, "get", <<S("U2"), S("NODE"), I(16), S("U"), S("Y")>>)),
    C(434, "graphics", <<S("POWER")>>),
    C(435, "eshape", <<I(1)>>),
    C(436, "view", <<I(1), I(1), I(1), I(1)>>),
    C(439, "show", <<K("option", S("REV")), K("fname", S("png"))>>),
    C(440, "plnsol", <<S("S"), S("X")>>),
    Let("bend_stress2", C(443, "get", <<S("BEND_STRESS2"), S("PLNSOL"), I(0), S("MAX")>>)),
    C(444, "show", <<S("close")>>),
    C(463, "print", <<>>),
    C(480, "print", <<>>),
    C(481, "print", <<>>),
    C(480, "print", <<>>),
    C(481, "print", <<>>),
    C(487, "finish", <<>>),
    C(490, "exit", <<>>)
  >>

\* examples/verif-manual/vm-018.py
VM18 ==
  <<
    Let("mapdl", C(82, "launch_mapdl", <<K("loglevel", S("WARNING")), K("print_com", X("True")), K("remove_temp_dir_on_exit", X("True"))>>)),
    C(85, "clear", <<>>),
    C(88, "finish", <<>>),
    C(91, "com", <<S("ANSYS MEDIA REL. 2022R2 (05/13/2022) REF. VERIF. MANUAL: REL. 2022R2")>>),
    C(94, "run", <<S("/VERIFY,VM18")>>),
    C(97, "title", <<S("VM18 OUT-OF-PLANE BENDING OF A CURVED BAR")>>),
    C(100, "prep7", <<>>),
    C(106, "et", <<I(1), S("PIPE18"), S(""), S(""), S(""), S(""), S(""), I(2)>>),
    C(109, "r", <<I(1), I(2), I(1), I(100)>>),
    C(116, "mp", <<S("EX"), I(1), F("30e6")>>),
    C(117, "mp", <<S("NUXY"), I(1), F("0.3")>>),
    C(126, "n", <<I(1), I(100)>>),
    C(127, "n", <<I(2), S(""), I(100)>>),
    C(128, "n", <<I(10)>>),
    C(131, "e", <<I(1), I(2), I(10)>>),
    C(139, "d", <<I(1), S("ALL")>>),
    C(140, "f", <<I(2), S("FZ"), I(-50)>>),
    C(143, "allsel", <<>>),
    C(145, "eplot", <<K("vtk", X("False"))>>),
    C(148, "finish", <<>>),
    C(154, "slashsolu", <<>>),
    C(157, "antype", <<S("STATIC")>>),
    C(160, "outpr", <<S("BASIC"), I(1)>>),
    C(163, "solve", <<>>),
    C(165, "finish", <<>>),
    C(171, "post1", <<>>),
    C(174, "set", <<S("LAST")>>),
    Let("def_z", C(177, "get", <<S("DEF"), S("NODE"), I(2), S("U"), S("Z")>>)),
    Let("strs_ben", C(180, "etable", <<S("STRS_BEN"), S("NMISC"), I(91)>>)),
    Let("strs_shr", C(183, "etable", <<S("STRS_SHR"), S("LS"), I(4)>>)),
    Let("strss_b", C(186, "get", <<S("STRSS_B"), S("ELEM"), I(1), S("ETAB"), S("STRS_BEN")>>)),
    Let("strss_t", C(189, "get", <<S("STRSS_T"), S("ELEM"), I(1), S("ETAB"), S("STRS_SHR")>>)),
    C(214, "print", <<>>),
    C(215, "print", <<>>),
    C(220, "finish", <<>>),
    C(225, "run", <<S("/CLEAR,NOSTART")>>),
    C(230, "title", <<S("VM18 OUT-OF-PLANE BENDING OF A CURVED BAR Using PIPE289 ELEMENT MODEL")>>),
    C(235, "prep7", <<>>),
    C(241, "et", <<I(1), S("PIPE289"), S(""), S(""), S(""), I(2)>>),
    C(242, "sectype", <<I(1), S("PIPE")>>),
    C(243, "secdata", <<I(2), I(1), I(16)>>),
    C(250, "mp", <<S("EX"), I(1), F("30e6")>>),
    C(251, "mp", <<S("NUXY"), I(1), F("0.3")>>),
    C(259, "csys", <<I(1)>>),
    C(261, "n", <<I(1), I(100)>>),
    C(264, "ngen", <<I(19), I(1), I(1), S(""), S(""), S(""), I(5)>>),
    C(267, "e", <<I(1), I(3), I(2)>>),
    C(270, "egen", <<I(9), I(2), I(-1)>>),
    C(273, "csys", <<I(0)>>),
    C(280, "d", <<I(1), S("ALL")>>),
    C(281, "f", <<I(19), S("FZ"), I(-50)>>),
    C(284, "allsel", <<>>),
    C(286, "eplot", <<K("vtk", X("False"))>>),
    C(289, "finish", <<>>),
    C(295, "slashsolu", <<>>),
    C(298, "antype", <<S("STATIC")>>),
    C(301, "outpr", <<S("BASIC"), I(1)>>),
    C(304, "solve", <<>>),
    C(306, "finish", <<>>),
    C(312, "post1", <<>>),
    C(315, "set", <<S("LAST")>>),
    C(316, "graphics", <<S("POWER")>>),
    C(317, "eshape", <<I(1)>>),
    C(318, "view", <<I(1), I(1), I(1), I(1)>>),
    Let("def_z", C(321, "get", <<S("DEF"), S("NODE"), I(19), S("U"), S("Z")>>)),
    Let("strs_ben", C(324, "etable", <<S("STRS_BEN"), S("SMISC"), I(35)>>)),
    Let("strss_b", C(327, "get", <<S("STRSS_B"), S("ELEM"), I(1), S("ETAB"), S("STRS_BEN")>>)),
    C(330, "show", <<K("option", S("REV"))>>),
    C(332, "plesol", <<S("S"), S("XY")>>),
    Let("shear_sxy", C(334, "get", <<S("SHEAR"), S("PLNSOL"), I(0), S("MIN")>>)),
    C(335, "show", <<S("close")>>),
    C(358, "print", <<>>),
    C(359, "print", <<>>),
    C(364, "finish", <<>>),
    C(369, "exit", <<>>)
  >>

\* examples/verif-manual/vm-020.py
VM20 ==
  <<
    Let("mapdl", C(75, "launch_mapdl", <<K("loglevel", S("WARNING")), K("print_com", X("True")), K("remove_temp_dir_on_exit", X("True"))>>)),
    C(78, "clear", <<>>),
    C(81, "finish", <<>>),
    C(84, "com", <<S("ANSYS MEDIA REL. 2022R2 (05/13/2022) REF. VERIF. MANUAL: REL. 2022R2")>>),
    C(87, "run", <<S("/VERIFY,VM20")>>),
    C(90, "title", <<S("VM20 CYLINDRICAL MEMBRANE UNDER PRESSURE")>>),
    C(93, "prep7", <<>>),
    C(102, "et", <<I(1), S("SHELL181")>>),
    C(103, "keyopt", <<I(1), I(1), I(1)>>),
    C(104, "keyopt", <<I(1), I(3), I(2)>>),
    C(105, "sectype", <<I(1), S("SHELL")>>),
    C(106, "secdata", <<I(1), I(1)>>),
    C(114, "mp", <<S("EX"), I(1), F("30e6")>>),
    C(115, "mp", <<S("NUXY"), I(1), F("0.3")>>),
    C(123, "csys", <<I(1)>>),
    C(125, "n", <<I(1), I(60)>>),
    C(128, "n", <<I(2), I(60), S(""), I(10)>>),
    C(131, "ngen", <<I(2), I(2), I(1), I(2), I(1), S(""), I(10)>>),
    C(134, "nrotat", <<S("ALL")>>),
    C(137, "e", <<I(1), I(2), I(4), I(3)>>),
    C(146, "cp", <<I(1), S("UX"), I(1), I(2), I(3), I(4)>>),
    C(147, "cp", <<I(2), S("UZ"), I(2), I(4)>>),
    C(149, "d", <<I(1), S("UZ"), S(""), S(""), I(3), I(2)>>),
    C(150, "d", <<S("ALL"), S("UY")>>),
    C(152, "sfe", <<I(1), I(4), S("PRES"), S(""), I(-15000)>>),
    C(153, "sfe", <<I(1), I(1), S("PRES"), S(""), I(-500)>>),
    C(156, "allsel", <<>>),
    C(158, "eplot", <<K("background", S("w"))>>),
    C(161, "finish", <<>>),
    C(167, "slashsolu", <<>>),
    C(170, "antype", <<S("STATIC")>>),
    C(172, "outpr", <<S("NSOL"), I(1)>>),
    C(173, "outpr", <<S("RSOL"), I(1)>>),
    C(176, "solve", <<>>),
    C(178, "finish", <<>>),
    C(184, "post1", <<>>),
    Let("strs_hop", C(187, "get", <<S("STRS_HOP"), S("NODE"), I(1), S("S"), I(2)>>)),
    Let("strs_ax", C(189, "get", <<S("STRS_AX"), S("NODE"), I(1), S("S"), I(1)>>)),
    C(211, "print", <<>>),
    C(212, "print", <<>>),
    C(217, "finish", <<>>),
    C(222, "exit", <<>>)
  >>

\* examples/verif-manual/vm-021.py
VM21 ==
  <<
    Let("mapdl", C(73, "launch_mapdl", <<K("loglevel", S("WARNING")), K("print_com", X("True")), K("remove_temp_dir_on_exit", X("True"))>>)),
    C(76, "clear", <<>>),
    C(79, "finish", <<>>),
    C(82, "com", <<S("ANSYS MEDIA REL. 2022R2 (05/13/2022) REF. VERIF. MANUAL: REL. 2022R2")>>),
    C(85, "run", <<S("/VERIFY,VM21")>>),
    C(88, "title", <<S("VM21 TIE ROD WITH LATERAL LOADING NO STREES STIFFENING")>>),
    C(91, "prep7", <<>>),
    C(98, "et", <<I(1), S("BEAM188")>>),
    C(100, "keyopt", <<I(1), I(3), I(3)>>),
    C(101, "sectype", <<I(1), S("BEAM"), S("RECT")>>),
    C(102, "secdata", <<F("2.5"), F("2.5")>>),
    C(110, "mp", <<S("EX"), I(1), F("30e6")>>),
    C(111, "mp", <<S("PRXY"), S(""), F("0.3")>>),
    C(119, "n", <<I(1)>>),
    C(120, "n", <<I(5), I(100)>>),
    C(123, "fill", <<>>),
    C(126, "e", <<I(1), I(2)>>),
    C(129, "egen", <<I(4), I(1), I(1)>>),
    C(139, "d", <<S("ALL"), S("UY"), S(""), S(""), S(""), S(""), S("ROTX"), S("ROTZ")>>),
    C(140, "d", <<I(1), S("UZ")>>),
    C(143, "nsel", <<S("S"), S(""), S(""), I(5)>>),
    C(144, "dsym", <<S("SYMM"), S("X")>>),
    C(147, "nsel", <<S("ALL")>>),
    C(150, "f", <<I(1), S("FX"), F("-21972.6")>>),
    C(152, "sfbeam", <<S("ALL"), I(1), S("PRES"), F("1.79253")>>),
    C(155, "allsel", <<>>),
    C(157, "eplot", <<>>),
    C(160, "finish", <<>>),
    C(166, "slashsolu", <<>>),
    C(169, "antype", <<S("STATIC")>>),
    C(171, "solve", <<>>),
    C(173, "finish", <<>>),
    C(179, "post1", <<>>),
    C(182, "nsel", <<S("S"), S(""), S(""), I(1), I(5), I(4)>>),
    C(185, "prnsol", <<S("U"), S("Z")>>),
    C(188, "prnsol", <<S("ROT"), S("Y")>>),
    C(191, "nsel", <<S("ALL")>>),
    C(194, "prrsol", <<>>),
    Let("RGHT_END", C(200, "queries.node", <<I(200), I(0), I(0)>>)),
    Let("LFT_END", C(201, "queries.node", <<I(0), I(0), I(0)>>)),
    Let("uz_mx_c2", C(208, "get", <<S("UZ_MX_C2"), S("NODE"), X("RGHT_END"), S("U"), S("Z")>>)),
    Let("slope_c2", C(211, "get", <<S("SLOPE_C2"), S("NODE"), X("LFT_END"), S("ROT"), S("Y")>>)),
    C(214, "finish", <<>>),
    C(220, "post26", <<>>),
    C(223, "rforce", <<I(2), X("RGHT_END"), S("M"), S("Y")>>),
    C(226, "store", <<>>),
    Let("m_mx_c2", C(228, "get", <<S("M_MX_C2"), S("VARI"), I(2), S("EXTREM"), S("VMAX")>>)),
    C(231, "finish", <<>>),
    C(236, "title", <<S("VM21 TIE ROD WITH LATERAL LOADING STRESS STIFFENING PRESENT")>>),
    C(242, "slashsolu", <<>>),
    C(245, "nsubst", <<I(5)>>),
    C(247, "autots", <<S("ON")>>),
    C(249, "nlgeom", <<S("ON")>>),
    C(251, "cnvtol", <<S("F"), S(""), F("0.0001"), S(""), I(1)>>),
    C(253, "solve", <<>>),
    C(255, "finish", <<>>),
    C(261, "post1", <<>>),
    C(264, "nsel", <<S("S"), S(""), S(""), I(1), I(5), I(4)>>),
    C(266, "prnsol", <<S("U"), S("Z")>>),
    C(268, "prnsol", <<S("ROT"), S("Y")>>),
    C(270, "prrsol", <<>>),
    Let("uz_mx_c1", C(273, "get", <<S("UZ_MX_C1"), S("NODE"), X("RGHT_END"), S("U"), S("Z")>>)),
    Let("slope_c1", C(276, "get", <<S("SLOPE_C1"), S("NODE"), X("LFT_END"), S("ROT"), S("Y")>>)),
    C(279, "finish", <<>>),
    C(285, "post26", <<>>),
    C(288, "rforce", <<I(2), X("RGHT_END"), S("M"), S("Y")>>),
    C(291, "store", <<>>),
    Let("m_mx_c1", C(294, "get", <<S("M_MX_C1"), S("VARI"), I(2), S("EXTREM"), S("VMAX")>>)),
    C(322, "print", <<>>),
    C(323, "print", <<>>),
    C(340, "print", <<>>),
    C(341, "print", <<>>),
    C(347, "finish", <<>>),
    C(352, "exit", <<>>)
  >>

\* examples/verif-manual/vm-025.py
VM25 ==
  <<
    Let("mapdl", C(80, "launch_mapdl", <<K("loglevel", S("WARNING")), K("print_com", X("True")), K("remove_temp_dir_on_exit", X("True"))>>)),
    C(83, "clear", <<>>),
    C(86, "finish", <<>>),
    C(89, "com", <<S("ANSYS MEDIA REL. 2022R2 (05/13/2022) REF. VERIF. MANUAL: REL. 2022R2")>>),
    C(92, "run", <<S("/VERIFY,VM25")>>),
    C(95, "title", <<S("VM25 Stresses in a Long Cylinder")>>),
    C(98, "prep7", <<>>),
    C(101, "smrtsize", <<K("sizlvl", S("OFF"))>>),
    C(108, "et", <<I(1), S("PLANE183"), S(""), S(""), I(1)>>),
    C(115, "mp", <<S("EX"), I(1), F("30e6")>>),
    C(116, "mp", <<S("DENS"), I(1), F("0.00073")>>),
    C(117, "mp", <<S("NUXY"), I(1), F("0.3")>>),
    C(126, "n", <<I(1), I(4)>>),
    C(128, "n", <<I(2), S("4+4/14")>>),
    C(130, "n", <<I(3), S("4+4/14"), F("0.5")>>),
    C(132, "n", <<I(4), I(4), F("0.5")>>),
    C(134, "n", <<I(5), S("4+4/28")>>),
    C(136, "n", <<I(6), S("4+4/14"), F("0.25")>>),
    C(138, "n", <<I(7), S("4+4/28"), F("0.5")>>),
    C(140, "n", <<I(8), I(4), F("0.25")>>),
    C(142, "e", <<I(1), I(2), I(3), I(4), I(5), I(6), I(7), I(8)>>),
    C(146, "egen", <<I(14), I(8), I(1), S(""), S(""), S(""), S(""), S(""), S(""), S(""), S("4/14")>>),
    C(148, "nummrg", <<S("NODE")>>),
    C(150, "egen", <<I(2), I(111), I(1), I(14), S(""), S(""), S(""), S(""), S(""), S(""), S(""), F("0.5")>>),
    C(152, "nummrg", <<S("NODE")>>),
    C(162, "nsel", <<S("S"), S("LOC"), S("Y"), I(0)>>),
    C(164, "d", <<S("ALL"), S("UY")>>),
    C(165, "nsel", <<S("S"), S("LOC"), S("Y"), I(1)>>),
    C(167, "cp", <<I(1), S("UY"), S("ALL")>>),
    C(169, "nsel", <<S("S"), S("LOC"), S("X"), I(4)>>),
    C(173, "sf", <<S(""), S("PRES"), I(30000)>>),
    C(175, "nsel", <<S("S"), S("LOC"), S("X"), I(8)>>),
    C(179, "sf", <<S(""), S("PRES"), F("1e-10")>>),
    C(182, "allsel", <<>>),
    C(184, "eplot", <<K("background", S("w"))>>),
    C(187, "finish", <<>>),
    C(190, "save", <<S("MODEL")>>),
    C(196, "slashsolu", <<>>),
    C(199, "antype", <<S("STATIC")>>),
    C(201, "outpr", <<S(""), S("ALL")>>),
    C(203, "solve", <<>>),
    C(205, "finish", <<>>),
    C(211, "post1", <<>>),
    C(214, "set", <<I(1), I(1)>>),
    Let("LFT_NODE", C(220, "queries.node", <<I(4), I(0), I(0)>>)),
    Let("MID_NODE", C(221, "queries.node", <<I(6), I(0), I(0)>>)),
    Let("RT_NODE", C(222, "queries.node", <<I(8), I(0), I(0)>>)),
    Let("def_4", C(230, "get", <<S("DEF_4"), S("NODE"), X("LFT_NODE"), S("U"), S("X")>>)),
    Let("rst_4_c1", C(234, "get", <<S("RST_4_C1"), S("NODE"), X("LFT_NODE"), S("S"), S("X")>>)),
    Let("rst_6_c1", C(235, "get", <<S("RST_6_C1"), S("NODE"), X("MID_NODE"), S("S"), S("X")>>)),
    Let("rst_8_c1", C(236, "get", <<S("RST_8_C1"), S("NODE"), X("RT_NODE"), S("S"), S("X")>>)),
    Let("tst_4_c1", C(237, "get", <<S("TST_4_C1"), S("NODE"), X("LFT_NODE"), S("S"), S("Z")>>)),
    Let("tst_6_c1", C(238, "get", <<S("TST_6_C1"), S("NODE"), X("MID_NODE"), S("S"), S("Z")>>)),
    Let("tst_8_c1", C(239, "get", <<S("TST_8_C1"), S("NODE"), X("RT_NODE"), S("S"), S("Z")>>)),
    C(242, "prnsol", <<S("S"), S("COMP")>>),
    C(245, "path", <<S("STRESS"), I(2), S(""), I(48)>>),
    C(246, "ppath", <<I(1), X("LFT_NODE")>>),
    C(247, "ppath", <<I(2), X("RT_NODE")>>),
    C(248, "plsect", <<S("S"), S("Z"), I(-1)>>),
    C(249, "plsect", <<S("S"), S("X"), I(-1)>>),
    C(250, "prsect", <<I(-1)>>),
    C(280, "print", <<>>),
    C(281, "print", <<>>),
    C(291, "print", <<>>),
    C(304, "print", <<>>),
    C(310, "finish", <<>>),
    C(315, "title", <<S("VM25 Stresses in a Long Cylinder - Rotation About Axis")>>),
    C(318, "resume", <<S("MODEL")>>),
    C(324, "slashsolu", <<>>),
    C(327, "outpr", <<S(""), S("ALL")>>),
    C(336, "nsel", <<S("S"), S("LOC"), S("Y"), I(0)>>),
    C(339, "nsel", <<S("R"), S("LOC"), S("X"), I(4)>>),
    C(341, "d", <<S("ALL"), S("UY")>>),
    C(343, "nsel", <<S("S"), S("LOC"), S("X"), I(4)>>),
    C(345, "sf", <<S(""), S("PRES"), F("1e-10")>>),
    C(347, "nsel", <<S("ALL")>>),
    C(349, "omega", <<S(""), I(1000)>>),
    C(352, "solve", <<>>),
    C(354, "finish", <<>>),
    C(360, "post1", <<>>),
    Let("LFT_NODE", C(366, "queries.node", <<I(4), I(0), I(0)>>)),
    Let("XI_NODE", C(367, "queries.node", <<F("5.43"), I(0), I(0)>>)),
    Let("rst_4_c2", C(375, "get", <<S("RST_4_C2"), S("NODE"), X("LFT_NODE"), S("S"), S("X")>>)),
    Let("tst_4_c2", C(376, "get", <<S("TST_4_C2"), S("NODE"), X("LFT_NODE"), S("S"), S("Z")>>)),
    Let("rst_x_c2", C(377, "get", <<S("RST_X_C2"), S("NODE"), X("XI_NODE"), S("S"), S("X")>>)),
    Let("tst_x_c2", C(378, "get", <<S("TST_X_C2"), S("NODE"), X("XI_NODE"), S("S"), S("Z")>>)),
    C(406, "print", <<>>),
    C(407, "print", <<>>),
    C(417, "print", <<>>),
    C(422, "finish", <<>>),
    C(427, "exit", <<>>)
  >>

\* examples/verif-manual/vm-291.py
VM291 ==
  <<
    Let("mapdl", C(104, "launch_mapdl", <<K("loglevel", S("WARNING")), K("print_com", X("True")), K("remove_temp_dir_on_exit", X("True"))>>)),
    C(107, "clear", <<>>),
    C(110, "finish", <<>>),
    C(113, "com", <<S("ANSYS MEDIA REL. 2022R2 (05/13/2022) REF. VERIF. MANUAL: REL. 2022R2")>>),
    C(116, "run", <<S("/VERIFY,VM291")>>),
    C(119, "title", <<S("VM291 FORCE ON BOUNDARY OF A SEMI-INFINITE BODY (BOUSSINESQ PROBLEM)")>>),
    C(122, "prep7", <<K("mute", X("True"))>>),
    C(131, "et", <<I(1), S("PLANE182")>>),
    C(132, "keyopt", <<I(1), I(3), I(1)>>),
    C(140, "mp", <<S("EX"), I(1), F("1.0")>>),
    C(142, "mp", <<S("PRXY"), I(1), F("0.1")>>),
    C(150, "n", <<I(1), I(0), I(0)>>),
    C(151, "n", <<I(2), I(1), I(0)>>),
    C(152, "n", <<I(3), F("0.75"), F("-0.75")>>),
    C(153, "n", <<I(4), I(0), I(-1)>>),
    C(154, "n", <<I(5), I(2), I(0)>>),
    C(155, "n", <<I(6), F("1.75"), F("-0.75")>>),
    C(156, "n", <<I(7), F("1.5"), F("-1.5")>>),
    C(157, "n", <<I(8), F("0.75"), F("-1.75")>>),
    C(158, "n", <<I(9), I(0), I(-2)>>),
    C(159, "n", <<I(10), I(3), I(0)>>),
    C(160, "n", <<I(11), F("2.5833"), F("-1.0833")>>),
    C(161, "n", <<I(12), F("2.1667"), F("-2.1667")>>),
    C(162, "n", <<I(13), F("1.0833"), F("-2.5833")>>),
    C(163, "n", <<I(14), I(0), I(-3)>>),
    C(164, "n", <<I(15), I(4), I(0)>>),
    C(165, "n", <<I(16), F("3.4167"), F("-1.4167")>>),
    C(166, "n", <<I(17), F("2.8333"), F("-2.8333")>>),
    C(167, "n", <<I(18), F("1.4167"), F("-3.4167")>>),
    C(168, "n", <<I(19), I(0), I(-4)>>),
    C(171, "mat", <<I(1)>>),
    C(172, "type", <<I(1)>>),
    C(175, "e", <<I(4), I(3), I(2), I(1)>>),
    C(176, "e", <<I(6), I(5), I(2), I(3)>>),
    C(177, "e", <<I(7), I(6), I(3), I(8)>>),
    C(178, "e", <<I(9), I(8), I(3), I(4)>>),
    C(179, "e", <<I(11), I(10), I(5), I(6)>>),
    C(180, "e", <<I(12), I(11), I(6), I(7)>>),
    C(181, "e", <<I(13), I(12), I(7), I(8)>>),
    C(182, "e", <<I(14), I(13), I(8), I(9)>>),
    C(183, "e", <<I(16), I(15), I(10), I(11)>>),
    C(184, "e", <<I(17), I(16), I(11), I(12)>>),
    C(185, "e", <<I(18), I(17), I(12), I(13)>>),
    C(186, "e", <<I(19), I(18), I(13), I(14)>>),
    Let("NPOLE", C(193, "queries.node", <<I(0), I(0), I(0)>>)),
    C(196, "nsel", <<S("S"), S(""), S(""), I(15), I(19)>>),
    C(199, "einfin", <<S(""), X("NPOLE")>>),
    C(202, "allsel", <<>>),
    C(214, "nsel", <<S("S"), S("LOC"), S("X"), I(0)>>),
    C(216, "d", <<S("ALL"), S("UX"), I(0)>>),
    C(219, "allsel", <<>>),
    C(220, "eplot", <<>>),
    C(225, "f", <<I(1), S("FY"), I(-1)>>),
    C(228, "finish", <<>>),
    C(235, "slashsolu", <<>>),
    C(238, "antype", <<S("STATIC")>>),
    C(240, "outres", <<S("ALL"), S("ALL")>>),
    C(242, "time", <<I(1)>>),
    C(244, "solve", <<>>),
    C(246, "finish", <<>>),
    C(253, "post1", <<>>),
    C(256, "set", <<S("LAST")>>),
    C(258, "run", <<S("/OUT")>>),
    C(260, "gopr", <<>>),
    Let("uya1", C(271, "get", <<S("UYA1"), S("NODE"), I(2), S("U"), S("Y")>>)),
    Let("upa1", C(273, "get", <<S("UPA1"), S("NODE"), I(4), S("U"), S("Y")>>)),
    Let("uya2", C(284, "get", <<S("UYA2"), S("NODE"), I(5), S("U"), S("Y")>>)),
    Let("upa2", C(286, "get", <<S("UPA2"), S("NODE"), I(9), S("U"), S("Y")>>)),
    Let("uya3", C(297, "get", <<S("UYA3"), S("NODE"), I(10), S("U"), S("Y")>>)),
    Let("upa3", C(299, "get", <<S("UPA3"), S("NODE"), I(14), S("U"), S("Y")>>)),
    Let("uya4", C(310, "get", <<S("UYA4"), S("NODE"), I(15), S("U"), S("Y")>>)),
    Let("upa4", C(312, "get", <<S("UPA4"), S("NODE"), I(19), S("U"), S("Y")>>)),
    C(350, "print", <<>>),
    C(356, "print", <<>>),
    C(356, "print", <<>>),
    C(356, "print", <<>>),
    C(364, "print", <<>>),
    C(370, "print", <<>>),
    C(370, "print", <<>>),
    C(370, "print", <<>>),
    C(375, "finish", <<>>),
    C(381, "run", <<S("/CLEAR,NOSTART")>>),
    C(383, "run", <<S("/OUT")>>),
    C(386, "prep7", <<K("mute", X("True"))>>),
    C(397, "mp", <<S("EX"), I(1), F("1.0")>>),
    C(399, "mp", <<S("PRXY"), I(1), F("0.1")>>),
    C(405, "et", <<I(1), S("PLANE183")>>),
    C(406, "keyopt", <<I(1), I(3), I(1)>>),
    C(414, "n", <<I(1), F("0.0000"), F("-1.0"), F("0.0000")>>),
    C(415, "n", <<I(2), F("0.75000"), F("-0.75"), F("0.0000")>>),
    C(416, "n", <<I(3), F("0.37500"), F("-0.875"), F("0.0000")>>),
    C(417, "n", <<I(4), F("1.0000"), F("0.0000"), F("0.0000")>>),
    C(418, "n", <<I(5), F("0.87500"), F("-0.375"), F("0.0000")>>),
    C(419, "n", <<I(6), F("0.0000"), F("0.0000"), F("0.0000")>>),
    C(420, "n", <<I(7), F("0.50000"), F("0.0000"), F("0.0000")>>),
    C(421, "n", <<I(8), F("0.0000"), F("-0.5"), F("0.0000")>>),
    C(422, "n", <<I(9), F("1.7500"), F("-0.75"), F("0.0000")>>),
    C(423, "n", <<I(10), F("2.0000"), F("0.0000"), F("0.0000")>>),
    C(424, "n", <<I(11), F("1.8750"), F("-0.375"), F("0.0000")>>),
    C(425, "n", <<I(12), F("1.5000"), F("0.0000"), F("0.0000")>>),
    C(426, "n", <<I(13), F("1.2500"), F("-0.75"), F("0.0000")>>),
    C(427, "n", <<I(14), F("1.5000"), F("-1.5"), F("0.0000")>>),
    C(428, "n", <<I(15), F("1.6250"), F("-1.125"), F("0.0000")>>),
    C(429, "n", <<I(16), F("0.75000"), F("-1.75"), F("0.0000")>>),
    C(430, "n", <<I(17), F("0.75000"), F("-1.25"), F("0.0000")>>),
    C(431, "n", <<I(18), F("1.1250"), F("-1.625"), F("0.0000")>>),
    C(432, "n", <<I(19), F("0.0000"), F("-2.0"), F("0.0000")>>),
    C(433, "n", <<I(20), F("0.37500"), F("-1.875"), F("0.0000")>>),
    C(434, "n", <<I(21), F("0.0000"), F("-1.5"), F("0.0000")>>),
    C(435, "n", <<I(22), F("2.5833"), F("-1.0833"), F("0.0000")>>),
    C(436, "n", <<I(23), F("3.0000"), F("0.0000"), F("0.0000")>>),
    C(437, "n", <<I(24), F("2.7917"), F("-0.54165"), F("0.0000")>>),
    C(438, "n", <<I(25), F("2.5000"), F("0.0000"), F("0.0000")>>),
    C(439, "n", <<I(26), F("2.1667"), F("-0.91665"), F("0.0000")>>),
    C(440, "n", <<I(27), F("2.1667"), F("-2.1667"), F("0.0000")>>),
    C(441, "n", <<I(28), F("2.3750"), F("-1.625"), F("0.0000")>>),
    C(442, "n", <<I(29), F("1.8334"), F("-1.8334"), F("0.0000")>>),
    C(443, "n", <<I(30), F("1.0833"), F("-2.5833"), F("0.0000")>>),
    C(444, "n", <<I(31), F("1.6250"), F("-2.375"), F("0.0000")>>),
    C(445, "n", <<I(32), F("0.91665"), F("-2.1667"), F("0.0000")>>),
    C(446, "n", <<I(33), F("0.0000"), F("-3.0"), F("0.0000")>>),
    C(447, "n", <<I(34), F("0.54165"), F("-2.7917"), F("0.0000")>>),
    C(448, "n", <<I(35), F("0.0000"), F("-2.5"), F("0.0000")>>),
    C(449, "n", <<I(36), F("3.4167"), F("-1.4167"), F("0.0000")>>),
    C(450, "n", <<I(37), F("4.0000"), F("0.0000"), F("0.0000")>>),
    C(451, "n", <<I(38), F("3.7083"), F("-0.70835"), F("0.0000")>>),
    C(452, "n", <<I(39), F("3.5000"), F("0.0000"), F("0.0000")>>),
    C(453, "n", <<I(40), F("3.0000"), F("-1.25"), F("0.0000")>>),
    C(454, "n", <<I(41), F("2.8333"), F("-2.8333"), F("0.0000")>>),
    C(455, "n", <<I(42), F("3.1250"), F("-2.125"), F("0.0000")>>),
    C(456, "n", <<I(43), F("2.5000"), F("-2.5"), F("0.0000")>>),
    C(457, "n", <<I(44), F("1.4167"), F("-3.4167"), F("0.0000")>>),
    C(458, "n", <<I(45), F("2.1250"), F("-3.125"), F("0.0000")>>),
    C(459, "n", <<I(46), F("1.2500"), F("-3.0"), F("0.0000")>>),
    C(460, "n", <<I(47), F("0.0000"), F("-4.0"), F("0.0000")>>),
    C(461, "n", <<I(48), F("0.70835"), F("-3.7083"), F("0.0000")>>),
    C(462, "n", <<I(49), F("0.0000"), F("-3.5"), F("0.0000")>>),
    C(465, "mat", <<I(1)>>),
    C(466, "type", <<I(1)>>),
    C(469, "e", <<I(1), I(2), I(4), I(6), I(3), I(5), I(7), I(8)>>),
    C(470, "e", <<I(9), I(10), I(4), I(2), I(11), I(12), I(5), I(13)>>),
    C(471, "e", <<I(14), I(9), I(2), I(16), I(15), I(13), I(17), I(18)>>),
    C(472, "e", <<I(19), I(16), I(2), I(1), I(20), I(17), I(3), I(21)>>),
    C(473, "e", <<I(22), I(23), I(10), I(9), I(24), I(25), I(11), I(26)>>),
    C(474, "e", <<I(27), I(22), I(9), I(14), I(28), I(26), I(15), I(29)>>),
    C(475, "e", <<I(30), I(27), I(14), I(16), I(31), I(29), I(18), I(32)>>),
    C(476, "e", <<I(33), I(30), I(16), I(19), I(34), I(32), I(20), I(35)>>),
    C(477, "e", <<I(36), I(37), I(23), I(22), I(38), I(39), I(24), I(40)>>),
    C(478, "e", <<I(41), I(36), I(22), I(27), I(42), I(40), I(28), I(43)>>),
    C(479, "e", <<I(44), I(41), I(27), I(30), I(45), I(43), I(31), I(46)>>),
    C(480, "e", <<I(47), I(44), I(30), I(33), I(48), I(46), I(34), I(49)>>),
    Let("NPOLE", C(487, "queries.node", <<I(0), I(0), I(0)>>)),
    C(490, "nsel", <<S("S"), S("NODE"), S(""), I(36), I(38), I(1)>>),
    C(491, "nsel", <<S("A"), S("NODE"), S(""), I(41), I(42), I(1)>>),
    C(492, "nsel", <<S("A"), S("NODE"), S(""), I(44), I(45), I(1)>>),
    C(493, "nsel", <<S("A"), S("NODE"), S(""), I(47), I(48), I(1)>>),
    C(496, "einfin", <<S(""), X("NPOLE")>>),
    C(499, "allsel", <<>>),
    C(500, "eplot", <<>>),
    C(512, "nsel", <<S("S"), S("LOC"), S("X"), I(0)>>),
    C(514, "d", <<S("ALL"), S("UX"), I(0)>>),
    C(516, "allsel", <<>>),
    C(521, "f", <<I(6), S("FY"), I(-1)>>),
    C(524, "finish", <<>>),
    C(531, "slashsolu", <<>>),
    C(534, "antype", <<S("STATIC")>>),
    C(536, "outres", <<S("ALL"), S("ALL")>>),
    C(538, "time", <<I(1)>>),
    C(540, "solve", <<>>),
    C(542, "finish", <<>>),
    C(549, "post1", <<>>),
    C(552, "set", <<S("LAST")>>),
    C(554, "run", <<S("/OUT")>>),
    C(556, "gopr", <<>>),
    Let("uya1", C(567, "get", <<S("UYA1"), S("NODE"), I(4), S("U"), S("Y")>>)),
    Let("upa1", C(569, "get", <<S("UPA1"), S("NODE"), I(1), S("U"), S("Y")>>)),
    Let("uya2", C(580, "get", <<S("UYA2"), S("NODE"), I(10), S("U"), S("Y")>>)),
    Let("upa2", C(582, "get", <<S("UPA2"), S("NODE"), I(19), S("U"), S("Y")>>)),
    Let("uya3", C(593, "get", <<S("UYA3"), S("NODE"), I(23), S("U"), S("Y")>>)),
    Let("upa3", C(595, "get", <<S("UPA3"), S("NODE"), I(33), S("U"), S("Y")>>)),
    Let("uya4", C(606, "get", <<S("UYA4"), S("NODE"), I(37), S("U"), S("Y")>>)),
    Let("upa4", C(608, "get", <<S("UPA4"), S("NODE"), I(47), S("U"), S("Y")>>)),
    C(630, "gopr", <<>>),
    C(640, "print", <<>>),
    C(647, "print", <<>>),
    C(647, "print", <<>>),
    C(647, "print", <<>>),
    C(655, "print", <<>>),
    C(661, "print", <<>>),
    C(661, "print", <<>>),
    C(661, "print", <<>>),
    C(666, "print", <<>>),
    C(671, "finish", <<>>),
    C(676, "exit", <<>>)
  >>

\* examples/verif-manual/vm-295.py
VM295 ==
  <<
    Let("mapdl", C(80, "launch_mapdl", <<K("loglevel", S("WARNING")), K("print_com", X("True")), K("remove_temp_dir_on_exit", X("True"))>>)),
    C(82, "clear", <<>>),
    C(85, "finish", <<>>),
    C(88, "com", <<S("ANSYS MEDIA REL. 2022R2 (05/13/2022) REF. VERIF. MANUAL: REL. 2022R2")>>),
    C(91, "run", <<S("/VERIFY,VM295")>>),
    C(94, "title", <<S("VM295 1D TERZAGHI'S CONSOLIDATION PROBLEM WITH PERMEABILITY AS FUNCTION OF DEPTH")>>),
    C(99, "prep7", <<K("mute", X("True"))>>),
    C(115, "et", <<I(1), S("CPT212")>>),
    C(116, "keyopt", <<I(1), I(12), I(1)>>),
    C(117, "keyopt", <<I(1), I(3), I(2)>>),
    C(125, "mp", <<S("EX"), I(1), F("40000000.0")>>),
    C(126, "mp", <<S("NUXY"), I(1), F("0.3")>>),
    C(133, "tb", <<S("PM"), I(1), S(""), S(""), S("PERM")>>),
    C(134, "tbfield", <<S("YCOR"), I(0)>>),
    C(135, "tbdata", <<I(1), F("2e-12"), F("2e-12"), F("2e-12")>>),
    C(136, "tbfield", <<S("YCOR"), I(16)>>),
    C(138, "tbdata", <<I(1), F("2e-10"), F("2e-10"), F("2e-10")>>),
    C(139, "tb", <<S("PM"), I(1), S(""), S(""), S("BIOT")>>),
    C(140, "tbdata", <<I(1), F("1.0")>>),
    C(148, "rectng", <<I(0), I(1), I(0), I(16)>>),
    C(150, "lesize", <<I(4), S(""), S(""), I(16)>>),
    C(151, "lesize", <<I(3), S(""), S(""), I(1)>>),
    C(153, "mshape", <<I(0), S("2D")>>),
    C(154, "mshkey", <<I(1)>>),
    C(155, "amesh", <<I(1)>>),
    C(164, "d", <<S("ALL"), S("UX"), I(0)>>),
    C(166, "nsel", <<S("S"), S("LOC"), S("Y"), I(0)>>),
    C(167, "d", <<S("ALL"), S("UY"), I(0)>>),
    C(168, "nsel", <<S("ALL")>>),
    C(170, "nsel", <<S("S"), S("LOC"), S("Y"), I(16)>>),
    C(171, "d", <<S("ALL"), S("PRES"), I(0)>>),
    C(173, "nsel", <<S("ALL")>>),
    C(175, "esel", <<S("ALL")>>),
    C(176, "aplot", <<>>),
    C(179, "finish", <<>>),
    C(185, "slashsolu", <<>>),
    C(187, "antype", <<S("STATIC")>>),
    C(188, "nropt", <<S("UNSYM")>>),
    C(189, "time", <<I(86400)>>),
    C(191, "nsel", <<S("S"), S("LOC"), S("Y"), I(16)>>),
    C(193, "sf", <<S("ALL"), S("PRES"), F("10000.0")>>),
    C(195, "nsel", <<S("ALL")>>),
    C(198, "nsubst", <<K("nsbstp", I(350)), K("nsbmx", I(1000)), K("nsbmn", I(150))>>),
    C(201, "outres", <<S("ALL"), S("ALL")>>),
    C(202, "kbc", <<I(1)>>),
    C(205, "solve", <<>>),
    C(207, "finish", <<>>),
    C(214, "post1", <<>>),
    C(216, "set", <<S("LAST")>>),
    C(218, "run", <<S("/OUT")>>),
    C(220, "gopr", <<>>),
    C(225, "com", <<S("")>>),
    C(226, "com", <<S("EXCESS PORE PRESSURE IN KILOPASCALS AT LOCATION X=1,Y=6")>>),
    C(227, "com", <<S("FOR 0.1 DAY (8640 SECONDS),0.2 DAY (17280 SECONDS)")>>),
    C(228, "com", <<S("0.3 DAY (25920 SECONDS), 0.4 DAY (34560 SECONDS)")>>),
    C(229, "com", <<S("AND 0.5 DAY (43200 SECONDS) ARE COMPUTED AND COMPARED")>>),
    C(230, "com", <<S("AGAINST REFERENCE SOLUTION")>>),
    C(231, "com", <<S("")>>),
    Let("nd1", C(237, "queries.node", <<F("1.0"), F("6.0"), F("0.0")>>)),
    C(243, "run", <<S("/OUT,SCRATCH")>>),
    C(245, "set", <<I(1), I(16)>>),
    Let("p11", C(246, "get", <<S("P11"), S("NODE"), X("nd1"), S("PRES")>>)),
    Let("t11", C(247, "get", <<S("T11"), S("ACTIVE"), I(0), S("SET"), S("TIME")>>)),
    C(249, "set", <<I(1), I(17)>>),
    Let("p12", C(250, "get", <<S("P12"), S("NODE"), X("nd1"), S("PRES")>>)),
    Let("t12", C(251, "get", <<S("T12"), S("ACTIVE"), I(0), S("SET"), S("TIME")>>)),
    C(253, "com", <<S("")>>),
    C(254, "com", <<S("INTERPOLATE THE RESULTS AT LOCATION (1,6,0) FOR TIME=0.1DAY")>>),
    C(255, "com", <<S("")>>),
    C(258, "set", <<I(1), I(31)>>),
    Let("p21", C(259, "get", <<S("P21"), S("NODE"), X("nd1"), S("PRES")>>)),
    Let("t21", C(260, "get", <<S("T21"), S("ACTIVE"), I(0), S("SET"), S("TIME")>>)),
    C(262, "set", <<I(1), I(32)>>),
    Let("p22", C(263, "get", <<S("P22"), S("NODE"), X("nd1"), S("PRES")>>)),
    Let("t22", C(264, "get", <<S("T22"), S("ACTIVE"), I(0), S("SET"), S("TIME")>>)),
    C(266, "com", <<S("")>>),
    C(267, "com", <<S("INTERPOLATE THE RESULTS AT LOCATION (1,6,0) FOR TIME=0.2DAY")>>),
    C(268, "com", <<S("")>>),
    C(271, "set", <<I(1), I(46)>>),
    Let("p31", C(272, "get", <<S("P31"), S("NODE"), X("nd1"), S("PRES")>>)),
    Let("t31", C(273, "get", <<S("T31"), S("ACTIVE"), I(0), S("SET"), S("TIME")>>)),
    C(275, "set", <<I(1), I(47)>>),
    Let("p32", C(276, "get", <<S("P32"), S("NODE"), X("nd1"), S("PRES")>>)),
    Let("t32", C(277, "get", <<S("T32"), S("ACTIVE"), I(0), S("SET"), S("TIME")>>)),
    C(279, "com", <<S("")>>),
    C(280, "com", <<S("INTERPOLATE THE RESULTS AT LOCATION (1,6,0) FOR TIME=0.3DAY")>>),
    C(281, "com", <<S("")>>),
    C(284, "set", <<I(1), I(61)>>),
    Let("p41", C(285, "get", <<S("P41"), S("NODE"), X("nd1"), S("PRES")>>)),
    Let("t41", C(286, "get", <<S("T41"), S("ACTIVE"), I(0), S("SET"), S("TIME")>>)),
    C(288, "set", <<I(1), I(62)>>),
    Let("p42", C(289, "get", <<S("P42"), S("NODE"), X("nd1"), S("PRES")>>)),
    Let("t42", C(290, "get", <<S("T42"), S("ACTIVE"), I(0), S("SET"), S("TIME")>>)),
    C(292, "com", <<S("")>>),
    C(293, "com", <<S("INTERPOLATE THE RESULTS AT LOCATION (1,6,0) FOR TIME=0.4DAY")>>),
    C(294, "com", <<S("")>>),
    C(297, "set", <<I(1), I(76)>>),
    Let("p51", C(298, "get", <<S("P51"), S("NODE"), X("nd1"), S("PRES")>>)),
    Let("t51", C(299, "get", <<S("T51"), S("ACTIVE"), I(0), S("SET"), S("TIME")>>)),
    C(301, "set", <<I(1), I(77)>>),
    Let("p52", C(302, "get", <<S("P52"), S("NODE"), X("nd1"), S("PRES")>>)),
    Let("t52", C(303, "get", <<S("T52"), S("ACTIVE"), I(0), S("SET"), S("TIME")>>)),
    C(305, "com", <<S("")>>),
    C(306, "com", <<S("INTERPOLATE THE RESULTS AT LOCATION (1,6,0) FOR TIME=0.5DAY")>>),
    C(307, "com", <<S("")>>),
    C(334, "print", <<>>),
    C(340, "print", <<>>),
    C(340, "print", <<>>),
    C(340, "print", <<>>),
    C(340, "print", <<>>),
    C(340, "print", <<>>),
    C(345, "print", <<>>),
    C(350, "finish", <<>>),
    C(355, "exit", <<>>)
  >>

\* examples/verif-manual/vm-298.py (part 1)
VM298_part1 ==
  <<
    Let("mapdl", C(132, "launch_mapdl", <<K("loglevel", S("WARNING")), K("print_com", X("True")), K("remove_temp_dir_on_exit", X("True"))>>)),
    C(135, "title", <<S("VM298,PSD ANALYSIS OF 40-STORY BUILDING UNDER WIND LOAD EXCITATION")>>),
    C(168, "prep7", <<K("mute", X("True"))>>),
    C(173, "n", <<I(1), I(0), I(0), I(0)>>),
    C(173, "n", <<I(2), I(0), I(4), I(0)>>),
    C(173, "n", <<I(3), I(0), I(8), I(0)>>),
    C(173, "n", <<I(4), I(0), I(12), I(0)>>),
    C(173, "n", <<I(5), I(0), I(16), I(0)>>),
    C(173, "n", <<I(6), I(0), I(20), I(0)>>),
    C(173, "n", <<I(7), I(0), I(24), I(0)>>),
    C(173, "n", <<I(8), I(0), I(28), I(0)>>),
    C(173, "n", <<I(9), I(0), I(32), I(0)>>),
    C(173, "n", <<I(10), I(0), I(36), I(0)>>),
    C(173, "n", <<I(11), I(0), I(40), I(0)>>),
    C(173, "n", <<I(12), I(0), I(44), I(0)>>),
    C(173, "n", <<I(13), I(0), I(48), I(0)>>),
    C(173, "n", <<I(14), I(0), I(52), I(0)>>),
    C(173, "n", <<I(15), I(0), I(56), I(0)>>),
    C(173, "n", <<I(16), I(0), I(60), I(0)>>),
    C(173, "n", <<I(17), I(0), I(64), I(0)>>),
    C(173, "n", <<I(18), I(0), I(68), I(0)>>),
    C(173, "n", <<I(19), I(0), I(72), I(0)>>),
    C(173, "n", <<I(20), I(0), I(76), I(0)>>),
    C(173, "n", <<I(21), I(0), I(80), I(0)>>),
    C(173, "n", <<I(22), I(0), I(84), I(0)>>),
    C(173, "n", <<I(23), I(0), I(88), I(0)>>),
    C(173, "n", <<I(24), I(0), I(92), I(0)>>),
    C(173, "n", <<I(25), I(0), I(96), I(0)>>),
    C(173, "n", <<I(26), I(0), I(100), I(0)>>),
    C(173, "n", <<I(27), I(0), I(104), I(0)>>),
    C(173, "n", <<I(28), I(0), I(108), I(0)>>),
    C(173, "n", <<I(29), I(0), I(112), I(0)>>),
    C(173, "n", <<I(30), I(0), I(116), I(0)>>),
    C(173, "n", <<I(31), I(0), I(120), I(0)>>),
    C(173, "n", <<I(32), I(0), I(124), I(0)>>),
    C(173, "n", <<I(33), I(0), I(128), I(0)>>),
    C(173, "n", <<I(34), I(0), I(132), I(0)>>),
    C(173, "n", <<I(35), I(0), I(136), I(0)>>),
    C(173, "n", <<I(36), I(0), I(140), I(0)>>),
    C(173, "n", <<I(37), I(0), I(144), I(0)>>),
    C(173, "n", <<I(38), I(0), I(148), I(0)>>),
    C(173, "n", <<I(39), I(0), I(152), I(0)>>),
    C(173, "n", <<I(40), I(0), I(156), I(0)>>),
    C(173, "n", <<I(41), I(0), I(160), I(0)>>),
    C(177, "et", <<I(1), I(14)>>),
    C(178, "keyopt", <<I(1), I(2), I(1)>>),
    C(179, "r", <<I(1), F("1000000000.0"), F("21550.0")>>),
    C(180, "type", <<I(1)>>),
    C(181, "real", <<I(1)>>),
    C(182, "mat", <<I(1)>>),
    C(187, "e", <<I(1), I(2)>>),
    C(187, "e", <<I(2), I(3)>>),
    C(187, "e", <<I(3), I(4)>>),
    C(187, "e", <<I(4), I(5)>>),
    C(187, "e", <<I(5), I(6)>>),
    C(187, "e", <<I(6), I(7)>>),
    C(187, "e", <<I(7), I(8)>>),
    C(187, "e", <<I(8), I(9)>>),
    C(187, "e", <<I(9), I(10)>>),
    C(187, "e", <<I(10), I(11)>>),
    C(187, "e", <<I(11), I(12)>>),
    C(187, "e", <<I(12), I(13)>>),
    C(187, "e", <<I(13), I(14)>>),
    C(187, "e", <<I(14), I(15)>>),
    C(187, "e", <<I(15), I(16)>>),
    C(187, "e", <<I(16), I(17)>>),
    C(187, "e", <<I(17), I(18)>>),
    C(187, "e", <<I(18), I(19)>>),
    C(187, "e", <<I(19), I(20)>>),
    C(187, "e", <<I(20), I(21)>>),
    C(187, "e", <<I(21), I(22)>>),
    C(187, "e", <<I(22), I(23)>>),
    C(187, "e", <<I(23), I(24)>>),
    C(187, "e", <<I(24), I(25)>>),
    C(187, "e", <<I(25), I(26)>>),
    C(187, "e", <<I(26), I(27)>>),
    C(187, "e", <<I(27), I(28)>>),
    C(187, "e", <<I(28), I(29)>>),
    C(187, "e", <<I(29), I(30)>>),
    C(187, "e", <<I(30), I(31)>>),
    C(187, "e", <<I(31), I(32)>>),
    C(187, "e", <<I(32), I(33)>>),
    C(187, "e", <<I(33), I(34)>>),
    C(187, "e", <<I(34), I(35)>>),
    C(187, "e", <<I(35), I(36)>>),
    C(187, "e", <<I(36), I(37)>>),
    C(187, "e", <<I(37), I(38)>>),
    C(187, "e", <<I(38), I(39)>>),
    C(187, "e", <<I(39), I(40)>>),
    C(187, "e", <<I(40), I(41)>>),
    C(191, "et", <<I(2), I(21)>>),
    C(192, "keyopt", <<I(2), I(3), I(2)>>),
    C(193, "r", <<I(2), F("1290000.0")>>),
    C(194, "type", <<I(2)>>),
    C(195, "real", <<I(2)>>),
    C(196, "mat", <<I(2)>>),
    Let("maxnod", C(197, "get", <<S("MAXNOD"), S("NODE"), I(0), S("NUM"), S("MAX")>>)),
    C(202, "e", <<I(2)>>),
    C(202, "e", <<I(3)>>),
    C(202, "e", <<I(4)>>),
    C(202, "e", <<I(5)>>),
    C(202, "e", <<I(6)>>),
    C(202, "e", <<I(7)>>),
    C(202, "e", <<I(8)>>),
    C(202, "e", <<I(9)>>),
    C(202, "e", <<I(10)>>),
    C(202, "e", <<I(11)>>),
    C(202, "e", <<I(12)>>),
    C(202, "e", <<I(13)>>),
    C(202, "e", <<I(14)>>),
    C(202, "e", <<I(15)>>),
    C(202, "e", <<I(16)>>),
    C(202, "e", <<I(17)>>),
    C(202, "e", <<I(18)>>),
    C(202, "e", <<I(19)>>),
    C(202, "e", <<I(20)>>),
    C(202, "e", <<I(21)>>),
    C(202, "e", <<I(22)>>),
    C(202, "e", <<I(23)>>),
    C(202, "e", <<I(24)>>),
    C(202, "e", <<I(25)>>),
    C(202, "e", <<I(26)>>),
    C(202, "e", <<I(27)>>),
    C(202, "e", <<I(28)>>),
    C(202, "e", <<I(29)>>),
    C(202, "e", <<I(30)>>),
    C(202, "e", <<I(31)>>),
    C(202, "e", <<I(32)>>),
    C(202, "e", <<I(33)>>),
    C(202, "e", <<I(34)>>),
    C(202, "e", <<I(35)>>),
    C(202, "e", <<I(36)>>),
    C(202, "e", <<I(37)>>),
    C(202, "e", <<I(38)>>),
    C(202, "e", <<I(39)>>),
    C(202, "e", <<I(40)>>),
    C(202, "e", <<I(41)>>),
    C(206, "nsel", <<S("S"), S("LOC"), S("Y"), I(0)>>),
    C(207, "cm", <<S("NODE_BASE"), S("NODE")>>),
    C(208, "nsel", <<S("INVE")>>),
    C(209, "cm", <<S("NODE_FLOOR"), S("NODE")>>),
    C(210, "allsel", <<S("ALL"), S("ALL")>>),
    C(214, "cmsel", <<S("S"), S("NODE_BASE")>>),
    C(215, "d", <<S("ALL"), S("ALL")>>),
    C(216, "allsel", <<S("ALL"), S("ALL")>>),
    C(217, "cmsel", <<S("S"), S("NODE_FLOOR")>>),
    C(218, "d", <<S("ALL"), S("UY")>>),
    C(219, "d", <<S("ALL"), S("UZ")>>),
    C(220, "allsel", <<S("ALL"), S("ALL")>>),
    C(224, "eplot", <<>>),
    C(226, "finish", <<>>),
    C(235, "slashsolu", <<>>),
    C(236, "antype", <<S("MODAL")>>),
    C(237, "modopt", <<S("LANB"), I(1)>>),
    C(238, "mxpand", <<>>),
    C(240, "solve", <<>>),
    C(241, "finish", <<>>),
    Let("freq_1", C(245, "get", <<S("FREQ_1"), S("MODE"), I(1), S("FREQ")>>)),
    C(248, "print", <<>>),
    C(249, "print", <<>>),
    C(260, "dim", <<S("FREQ_ARRAY"), S("ARRAY"), I(120)>>),
    C(261, "vfill", <<S("FREQ_ARRAY"), S("RAMP"), F("0.001"), F("0.002644249051531589")>>),
    C(262, "parameters.__getitem__", <<S("FREQ_ARRAY")>>),
    C(268, "dim", <<S("OMG_ARRAY"), S("ARRAY"), I(120)>>),
    C(269, "vfill", <<S("OMG_ARRAY"), S("RAMP"), F("0.006283185307179587"), F("0.016614306789106834")>>),
    C(270, "parameters.__getitem__", <<S("OMG_ARRAY")>>),
    C(275, "dim", <<S("COPHIFF"), S("ARRAY"), I(40), I(40), I(120)>>),
    C(276, "vfill", <<S("COPHIFF"), S("DATA"), F("0.0")>>),
    C(277, "parameters.__getitem__", <<S("COPHIFF")>>),
    C(302, "print", <<>>),
    C(308, "slashsolu", <<>>),
    C(310, "antype", <<S("SPECTRUM")>>),
    C(312, "spopt", <<S("PSD")>>)
  >>

\* examples/verif-manual/vm-298.py (part 2)
VM298_part2 ==
  <<
    C(346, "screenshot", <<>>),
    C(347, "show", <<S("CLOSE")>>),
    C(351, "print", <<>>),
    C(354, "fdele", <<K("node", S("ALL")), K("lab", S("FX"))>>),
    C(356, "psdres", <<K("lab", S("DISP"))>>),
    C(358, "psdcom", <<>>),
    C(364, "solve", <<>>),
    C(365, "finish", <<>>),
    C(375, "post1", <<>>),
    C(376, "set", <<I(3), I(1)>>),
    C(377, "nsel", <<S(""), S("NODE"), S(""), I(41)>>),
    C(379, "gopr", <<>>),
    Let("prnsol_u", C(382, "prnsol", <<S("U")>>)),
    C(383, "print", <<>>),
    C(385, "finish", <<>>),
    C(391, "post26", <<>>),
    C(394, "store", <<K("lab", S("PSD")), K("freq", S("6.36E-03"))>>),
    Let("N41_UX", C(396, "nsol", <<K("nvar", S("2")), K("node", S("41")), K("item", S("U")), K("comp", S("X"))>>)),
    Let("PSD_UX_HZ", C(398, "rpsd", <<K("ir", S("3")), K("ia", S("2")), K("itype", S("1")), K("datum", S("2")), K("name", S("RPSD_UX_HZ"))>>)),
    C(401, "vget", <<K("par", S("FREQ")), K("ir", S("1"))>>),
    C(403, "parameters.__setitem__", <<S("factr"), X("_FACT / 2")>>),
    Let("fact", C(404, "vfact", <<S("factr")>>)),
    C(407, "voper", <<S("OMEGA"), S("FREQ"), S("MAX"), S("FREQ")>>),
    C(409, "vput", <<K("par", S("OMEGA")), K("ir", S("4")), K("name", S("OMEGA"))>>),
    C(412, "vget", <<K("par", S("RPSD_UX_HZ")), K("ir", S("3"))>>),
    C(414, "parameters.__setitem__", <<S("inv_fact"), X("1 / _FACT")>>),
    C(415, "vfact", <<K("factr", S("inv_fact"))>>),
    C(418, "voper", <<K("parr", S("RPSD_UX")), K("par1", S("RPSD_UX_HZ")), K("oper", S("MAX")), K("par2", S("RPSD_UX_HZ"))>>),
    C(421, "vput", <<K("par", S("RPSD_UX")), K("ir", S("5")), K("name", S("RPSD_UX"))>>),
    C(424, "show", <<S("PNG"), S("REV")>>),
    C(425, "axlab", <<S("X"), S("FREQUENCY, [RAD/SEC]")>>),
    C(426, "axlab", <<S("Y"), S("RPSD OF TOP FLOOR,[M**2.SEC/RAD]")>>),
    C(427, "yrange", <<K("ymin", S("1e-5")), K("ymax", S("1e-1"))>>),
    C(428, "gropt", <<K("lab", S("LOGY")), K("key", S("ON"))>>),
    C(431, "xvar", <<K("n", S("4"))>>),
    C(439, "plvar", <<K("nvar1", S("5"))>>),
    C(441, "screenshot", <<>>),
    C(442, "show", <<S("CLOSE")>>),
    C(447, "parameters.__getitem__", <<S("RPSD_UX")>>),
    C(450, "dim", <<S("frequencies"), S("array"), X("ndim"), I(1)>>),
    Let("frequencies", C(451, "vget", <<S("frequencies(1)"), I(4)>>)),
    C(454, "dim", <<S("response"), S("array"), X("ndim"), I(1)>>),
    Let("response", C(455, "vget", <<S("response(1)"), I(5)>>)),
    C(482, "show", <<S("PNG"), S("REV")>>),
    C(483, "axlab", <<S("X"), S("FREQUENCY, [RAD/SEC]")>>),
    C(484, "axlab", <<S("Y"), S("RPSD OF TOP FLOOR,[M**2.SEC/RAD]")>>),
    C(485, "xrange", <<K("xmin", S("1E-2")), K("xmax", S("2"))>>),
    C(486, "gropt", <<K("lab", S("LOGX")), K("key", S("ON"))>>),
    C(488, "plvar", <<K("nvar1", S("5"))>>),
    C(490, "screenshot", <<>>),
    C(491, "show", <<S("CLOSE")>>),
    C(512, "int1", <<K("ir", S("6")), K("iy", S("3")), K("ix", S("1"))>>),
    Let("d_variance", C(515, "get", <<K("par", S("D_VARIANCE")), K("entity", S("VARI")), K("entnum", S("6")), K("item1", S("EXTREME")), K("it1num", S("VLAST"))>>)),
    C(523, "print", <<>>),
    C(525, "finish", <<>>),
    C(561, "print", <<>>),
    C(578, "exit", <<>>)
  >>

\* examples/verif-manual/vm-299.py
VM299 ==
  <<
    Let("mapdl", C(81, "launch_mapdl", <<K("loglevel", S("WARNING")), K("print_com", X("True")), K("remove_temp_dir_on_exit", X("True"))>>)),
    C(83, "clear", <<>>),
    C(86, "finish", <<>>),
    C(89, "com", <<S("ANSYS MEDIA REL. 2022R2 (05/13/2022) REF. VERIF. MANUAL: REL. 2022R2")>>),
    C(92, "run", <<S("/VERIFY,VM299")>>),
    C(95, "title", <<S("VM299 SOUND PRESSURE LEVEL IN A FLAT ROOM")>>),
    C(98, "prep7", <<>>),
    C(101, "_run", <<S("/NOPR")>>),
    C(129, "mp", <<S("DENS"), I(1), F("1.21")>>),
    C(130, "mp", <<S("SONC"), I(1), I(343)>>),
    C(131, "tb", <<S("AFDM"), I(1), S(""), S(""), S("ROOM")>>),
    C(132, "tbdata", <<I(1), F("544.4444444444443"), F("0.01")>>),
    C(146, "block", <<I(0), F("2.0"), I(0), F("2.0"), I(0), F("2.0")>>),
    C(146, "block", <<I(0), F("2.0"), I(0), F("2.0"), F("2.0"), I(3)>>),
    C(146, "block", <<I(0), F("2.0"), F("2.0"), I(30), I(0), F("2.0")>>),
    C(146, "block", <<I(0), F("2.0"), F("2.0"), I(30), F("2.0"), I(3)>>),
    C(146, "block", <<F("2.0"), I(30), I(0), F("2.0"), I(0), F("2.0")>>),
    C(146, "block", <<F("2.0"), I(30), I(0), F("2.0"), F("2.0"), I(3)>>),
    C(146, "block", <<F("2.0"), I(30), F("2.0"), I(30), I(0), F("2.0")>>),
    C(146, "block", <<F("2.0"), I(30), F("2.0"), I(30), F("2.0"), I(3)>>),
    C(150, "vglue", <<S("ALL")>>),
    C(152, "et", <<I(1), I(220), I(3), I(4)>>),
    C(153, "type", <<I(1)>>),
    C(154, "mat", <<I(1)>>),
    C(155, "esize", <<F("0.5")>>),
    C(158, "vmesh", <<I(9), I(15), I(1)>>),
    C(161, "mshape", <<I(0), S("3D")>>),
    C(163, "vmesh", <<I(1)>>),
    C(165, "nsel", <<S("S"), S("LOC"), S("X"), I(0)>>),
    C(166, "nsel", <<S("A"), S("LOC"), S("X"), I(30)>>),
    C(167, "nsel", <<S("A"), S("LOC"), S("Y"), I(0)>>),
    C(168, "nsel", <<S("A"), S("LOC"), S("Y"), I(30)>>),
    C(169, "nsel", <<S("A"), S("LOC"), S("Z"), I(0)>>),
    C(170, "nsel", <<S("A"), S("LOC"), S("Z"), I(3)>>),
    C(182, "sf", <<S("ALL"), S("ATTN"), F("0.1")>>),
    C(184, "allsel", <<>>),
    C(186, "nsel", <<S("S"), S("LOC"), S("X"), F("2.0")>>),
    C(187, "nsel", <<S("R"), S("LOC"), S("Y"), F("2.0")>>),
    C(188, "nsel", <<S("R"), S("LOC"), S("Z"), F("2.0")>>),
    C(190, "bf", <<S("ALL"), S("MASS"), F("0.01")>>),
    C(193, "allsel", <<>>),
    C(194, "eplot", <<>>),
    C(196, "finish", <<>>),
    C(202, "slashsolu", <<>>),
    C(204, "solve", <<>>),
    C(206, "finish", <<>>),
    C(213, "post1", <<>>),
    C(215, "set", <<S("LAST")>>),
    C(217, "path", <<S("X_SPL"), I(2), S(""), I(15)>>),
    C(218, "ppath", <<I(1), S("NODE"), I(0), I(15), I(1)>>),
    C(219, "ppath", <<I(2), S("NODE"), I(30), I(15), I(1)>>),
    C(221, "pdef", <<S("UX"), S("U"), S("X"), S("NOAV")>>),
    C(222, "pdef", <<S("SPLX"), S("SPL"), S(""), S("NOAV")>>),
    C(225, "run", <<S("/OUT")>>),
    C(228, "prpath", <<S("UX"), S("SPLX")>>),
    C(231, "run", <<S("/OUT,SCRATCH")>>),
    C(234, "gropt", <<S("DIVX"), I(15)>>),
    C(236, "yrange", <<I(71), I(82)>>),
    C(238, "gropt", <<S("DIVY"), I(11)>>),
    C(241, "show", <<S("PNG"), S("rev")>>),
    C(243, "plpath", <<S("UX"), S("SPLX")>>),
    C(244, "show", <<S("CLOSE")>>),
    Let("n1", C(250, "queries.node", <<I(5), I(15), I(1)>>)),
    Let("n2", C(251, "queries.node", <<I(10), I(15), I(1)>>)),
    Let("n3", C(252, "queries.node", <<I(15), I(15), I(1)>>)),
    Let("n4", C(253, "queries.node", <<I(20), I(15), I(1)>>)),
    Let("n5", C(254, "queries.node", <<I(25), I(15), I(1)>>)),
    Let("en_1", C(260, "get", <<S("EN_1"), S("NODE"), X("n1"), S("ENKE")>>)),
    Let("en_2", C(261, "get", <<S("EN_2"), S("NODE"), X("n2"), S("ENKE")>>)),
    Let("en_3", C(262, "get", <<S("EN_3"), S("NODE"), X("n3"), S("ENKE")>>)),
    Let("en_4", C(263, "get", <<S("EN_4"), S("NODE"), X("n4"), S("ENKE")>>)),
    Let("en_5", C(264, "get", <<S("EN_5"), S("NODE"), X("n5"), S("ENKE")>>)),
    C(302, "print", <<>>),
    C(308, "print", <<>>),
    C(308, "print", <<>>),
    C(308, "print", <<>>),
    C(308, "print", <<>>),
    C(308, "print", <<>>),
    C(313, "print", <<>>),
    C(318, "finish", <<>>),
    C(323, "exit", <<>>)
  >>

\* examples/verif-manual/vm-nr1677-01-1a.py
NR1677 ==
  <<
    Let("mapdl", C(92, "launch_mapdl", <<K("loglevel", S("WARNING")), K("print_com", X("True"))>>)),
    C(105, "clear", <<>>),
    C(107, "title", <<S("NRC Piping Benchmark Problems, Volume 1, Problem 1")>>),
    C(109, "prep7", <<K("mute", X("True"))>>),
    C(113, "mp", <<S("ex"), I(1), F("24e6")>>),
    C(114, "mp", <<S("nuxy"), I(1), F("0.3")>>),
    C(118, "et", <<I(1), S("pipe289")>>),
    C(119, "keyopt", <<I(1), I(4), I(2)>>),
    C(123, "et", <<I(2), S("elbow290"), S(""), I(6)>>),
    C(127, "sectype", <<I(1), S("pipe")>>),
    C(128, "secdata", <<F("7.289"), F("0.241"), I(24)>>),
    C(132, "et", <<I(3), S("mass21")>>),
    C(133, "keyopt", <<I(3), I(3), I(2)>>),
    C(137, "r", <<I(12), F("0.03988")>>),
    C(138, "r", <<I(13), F("0.05032")>>),
    C(139, "r", <<I(14), F("0.02088")>>),
    C(140, "r", <<I(15), F("0.01698")>>),
    C(141, "r", <<I(16), F("0.01307")>>),
    C(142, "r", <<I(17), F("0.01698")>>),
    C(143, "r", <<I(18), F("0.01044")>>),
    C(144, "r", <<I(19), F("0.01795")>>),
    C(145, "r", <<I(20), F("0.01501")>>),
    C(152, "k", <<I(1), F("0.0"), F("0.0"), F("0.0")>>),
    C(153, "k", <<I(2), F("0.0"), F("54.45"), F("0.0")>>),
    C(154, "k", <<I(3), F("0.0"), F("108.9"), F("0.0")>>),
    C(155, "k", <<I(4), F("10.632"), F("134.568"), F("0.0")>>),
    C(156, "k", <<I(5), F("36.3"), F("145.2"), F("0.0")>>),
    C(157, "k", <<I(6), F("54.15"), F("145.2"), F("0.0")>>),
    C(158, "k", <<I(7), F("72.0"), F("145.2"), F("0.0")>>),
    C(159, "k", <<I(8), F("97.668"), F("145.2"), F("10.632")>>),
    C(160, "k", <<I(9), F("108.3"), F("145.2"), F("36.3")>>),
    C(161, "k", <<I(10), F("108.3"), F("145.2"), F("56.80")>>),
    C(162, "k", <<I(11), F("108.3"), F("145.2"), F("77.3")>>),
    C(164, "k", <<I(12), F("2.7631"), F("122.79"), I(0)>>),
    C(165, "k", <<I(13), F("22.408"), F("142.44"), I(0)>>),
    C(166, "k", <<I(14), F("85.9"), I(145), F("2.76")>>),
    C(167, "k", <<I(15), I(106), I(145), F("22.4")>>),
    C(171, "l", <<I(1), I(2)>>),
    C(172, "l", <<I(2), I(3)>>),
    C(173, "l", <<I(5), I(6)>>),
    C(174, "l", <<I(6), I(7)>>),
    C(175, "l", <<I(9), I(10)>>),
    C(176, "l", <<I(10), I(11)>>),
    C(180, "larc", <<I(3), I(4), I(12)>>),
    C(181, "larc", <<I(4), I(5), I(13)>>),
    C(182, "larc", <<I(7), I(8), I(14)>>),
    C(183, "larc", <<I(8), I(9), I(15)>>),
    C(190, "type", <<I(1)>>),
    C(191, "mat", <<I(1)>>),
    C(192, "secnum", <<I(1)>>),
    C(193, "real", <<I(1)>>),
    C(195, "lsel", <<S("s"), S("line"), S(""), I(1), I(6)>>),
    C(196, "allsel", <<S("below"), S("line")>>),
    C(197, "lesize", <<S("all"), S(""), S(""), I(2)>>),
    C(198, "lmesh", <<S("all")>>),
    C(199, "allsel", <<S("all"), S("all")>>),
    C(203, "type", <<I(2)>>),
    C(204, "secnum", <<I(1)>>),
    C(205, "mat", <<I(1)>>),
    C(207, "lsel", <<S("s"), S(""), S(""), I(7), I(14)>>),
    C(208, "allsel", <<S("below"), S("line")>>),
    C(209, "lesize", <<S("all"), S(""), S(""), I(2)>>),
    C(210, "lmesh", <<S("all")>>),
    C(211, "allsel", <<S("all"), S("all")>>),
    C(219, "type", <<I(3)>>),
    C(220, "real", <<I(12)>>),
    C(221, "e", <<I(2)>>),
    C(223, "real", <<I(13)>>),
    C(224, "e", <<I(6)>>),
    C(226, "real", <<I(14)>>),
    C(227, "e", <<I(28)>>),
    C(229, "real", <<I(15)>>),
    C(230, "e", <<I(10)>>),
    C(232, "real", <<I(16)>>),
    C(233, "e", <<I(11)>>),
    C(235, "real", <<I(17)>>),
    C(236, "e", <<I(15)>>),
    C(238, "real", <<I(18)>>),
    C(239, "e", <<I(35)>>),
    C(241, "real", <<I(19)>>),
    C(242, "e", <<I(19)>>),
    C(244, "real", <<I(20)>>),
    C(245, "e", <<I(20)>>),
    C(250, "elbow", <<S("on"), S(""), S(""), S("sect")>>),
    C(251, "allsel", <<S("all"), S("all")>>),
    C(256, "eplot", <<>>),
    C(261, "dk", <<I(1), S("all"), I(0)>>),
    C(262, "dk", <<I(11), S("all"), I(0)>>),
    C(263, "allsel", <<S("all"), S("all")>>),
    C(268, "finish", <<>>),
    C(277, "slashsolu", <<>>),
    C(278, "antype", <<S("modal")>>),
    C(283, "modopt", <<S("lanb"), I(5)>>),
    C(286, "mxpand", <<S(""), S(""), S(""), S("yes")>>),
    C(292, "solve", <<>>),
    C(293, "finish", <<>>),
    C(299, "post1", <<>>),
    C(303, "set", <<S("list")>>),
    C(305, "print", <<>>),
    C(307, "print", <<>>),
    C(307, "print", <<>>),
    C(307, "print", <<>>),
    C(307, "print", <<>>),
    C(307, "print", <<>>),
    C(309, "finish", <<>>),
    C(322, "slashsolu", <<>>),
    C(325, "antype", <<S("spectr")>>),
    C(328, "spopt", <<S("sprs")>>),
    C(331, "dmprat", <<F("0.02")>>),
    C(334, "grp", <<F("0.001")>>),
    C(337, "svtyp", <<I(2)>>),
    C(344, "sed", <<I(1)>>),
    C(346, "freq", <<>>),
    C(348, "freq", <<F("3.1"), I(4), I(5), F("5.81"), F("7.1"), F("8.77"), F("10.99"), F("14.08"), F("17.24")>>),
    C(349, "freq", <<I(25), F("28.5"), I(30), F("34.97"), I(55), I(80), I(140), I(162), F("588.93")>>),
    C(350, "sv", <<F("0.02"), I(400), I(871), I(871), I(700), I(1188), I(1188), I(440), I(775), I(775)>>),
    C(351, "sv", <<F("0.02"), F("533.2"), F("467.2"), F("443.6"), I(380), I(289), F("239.4"), F("192.6"), F("184.1"), I(145)>>),
    C(353, "solve", <<>>),
    C(360, "sed", <<S(""), I(1)>>),
    C(362, "freq", <<>>),
    C(364, "freq", <<F("3.1"), I(4), I(5), F("5.81"), F("7.1"), F("8.77"), F("10.99"), F("14.08"), F("17.24")>>),
    C(365, "freq", <<I(25), F("28.5"), I(30), F("34.97"), I(55), I(80), I(140), I(162), F("588.93")>>),
    C(366, "sv", <<F("0.02"), F("266.7"), F("580.7"), F("580.7"), F("466.7"), I(792), I(792), F("293.3"), F("516.7"), F("516.7")>>),
    C(367, "sv", <<F("0.02"), F("355.5"), F("311.5"), F("295.7"), F("253.3"), F("192.7"), F("159.6"), F("128.4"), F("122.7"), F("96.7")>>),
    C(369, "solve", <<>>),
    C(377, "sed", <<S(""), S(""), I(1)>>),
    C(379, "freq", <<>>),
    C(381, "freq", <<F("3.1"), I(4), I(5), F("5.81"), F("7.1"), F("8.77"), F("10.99"), F("14.08"), F("17.24")>>),
    C(382, "freq", <<I(25), F("28.5"), I(30), F("34.97"), I(55), I(80), I(140), I(162), F("588.93")>>),
    C(383, "sv", <<F("0.02"), I(400), I(871), I(871), I(700), I(1188), I(1188), I(440), I(775), I(775)>>),
    C(384, "sv", <<F("0.02"), F("533.2"), F("467.2"), F("443.6"), I(380), I(289), F("239.4"), F("192.6"), F("184.1"), I(145)>>),
    C(386, "solve", <<>>),
    C(391, "finish", <<>>),
    C(403, "post1", <<>>),
    Let("mcom_file", C(405, "input", <<S(""), S("mcom")>>)),
    Let("adisx", C(407, "get", <<S("AdisX"), S("NODE"), I(10), S("U"), S("X")>>)),
    Let("adisy", C(408, "get", <<S("AdisY"), S("NODE"), I(36), S("U"), S("Y")>>)),
    Let("adisz", C(409, "get", <<S("AdisZ"), S("NODE"), I(28), S("U"), S("Z")>>)),
    Let("arotx", C(410, "get", <<S("ArotX"), S("NODE"), I(9), S("ROT"), S("X")>>)),
    Let("aroty", C(411, "get", <<S("ArotY"), S("NODE"), I(18), S("ROT"), S("Y")>>)),
    Let("arotz", C(412, "get", <<S("ArotZ"), S("NODE"), I(9), S("ROT"), S("Z")>>)),
    C(446, "esel", <<S("s"), S("elem"), S(""), I(12)>>),
    C(451, "etable", <<S("pxi_12"), S("smisc"), I(1)>>),
    C(451, "etable", <<S("vyi_12"), S("smisc"), I(6)>>),
    C(451, "etable", <<S("vzi_12"), S("smisc"), I(5)>>),
    C(451, "etable", <<S("txi_12"), S("smisc"), I(4)>>),
    C(451, "etable", <<S("myi_12"), S("smisc"), I(2)>>),
    C(451, "etable", <<S("mzi_12"), S("smisc"), I(3)>>),
    C(451, "etable", <<S("pxj_12"), S("smisc"), I(14)>>),
    C(451, "etable", <<S("vyj_12"), S("smisc"), I(19)>>),
    C(451, "etable", <<S("vzj_12"), S("smisc"), I(18)>>),
    C(451, "etable", <<S("txj_12"), S("smisc"), I(17)>>),
    C(451, "etable", <<S("myj_12"), S("smisc"), I(15)>>),
    C(451, "etable", <<S("mzj_12"), S("smisc"), I(16)>>),
    C(446, "esel", <<S("s"), S("elem"), S(""), I(14)>>),
    C(451, "etable", <<S("pxi_14"), S("smisc"), I(1)>>),
    C(451, "etable", <<S("vyi_14"), S("smisc"), I(6)>>),
    C(451, "etable", <<S("vzi_14"), S("smisc"), I(5)>>),
    C(451, "etable", <<S("txi_14"), S("smisc"), I(4)>>),
    C(451, "etable", <<S("myi_14"), S("smisc"), I(2)>>),
    C(451, "etable", <<S("mzi_14"), S("smisc"), I(3)>>),
    C(451, "etable", <<S("pxj_14"), S("smisc"), I(36)>>),
    C(451, "etable", <<S("vyj_14"), S("smisc"), I(41)>>),
    C(451, "etable", <<S("vzj_14"), S("smisc"), I(40)>>),
    C(451, "etable", <<S("txj_14"), S("smisc"), I(39)>>),
    C(451, "etable", <<S("myj_14"), S("smisc"), I(37)>>),
    C(451, "etable", <<S("mzj_14"), S("smisc"), I(38)>>),
    C(453, "allsel", <<S("all")>>),
    C(454, "run", <<S("/GOPR")>>),
    Let("reaction_force", C(459, "prrsol", <<>>)),
    C(464, "finish", <<>>),
    C(489, "print", <<>>),
    C(501, "print", <<>>),
    C(533, "print", <<>>),
    C(545, "print", <<>>),
    C(581, "print", <<>>),
    C(582, "print", <<>>),
    C(583, "print", <<>>),
    C(608, "print", <<>>),
    C(609, "print", <<>>),
    C(614, "get_array", <<S("ELEM"), S(""), S("ETAB"), S("pxi_12")>>),
    C(621, "get_array", <<S("ELEM"), S(""), S("ETAB"), S("pxj_12")>>),
    C(626, "print", <<>>),
    C(608, "print", <<>>),
    C(609, "print", <<>>),
    C(614, "get_array", <<S("ELEM"), S(""), S("ETAB"), S("vyi_12")>>),
    C(621, "get_array", <<S("ELEM"), S(""), S("ETAB"), S("vyj_12")>>),
    C(626, "print", <<>>),
    C(608, "print", <<>>),
    C(609, "print", <<>>),
    C(614, "get_array", <<S("ELEM"), S(""), S("ETAB"), S("vzi_12")>>),
    C(621, "get_array", <<S("ELEM"), S(""), S("ETAB"), S("vzj_12")>>),
    C(626, "print", <<>>),
    C(608, "print", <<>>),
    C(609, "print", <<>>),
    C(614, "get_array", <<S("ELEM"), S(""), S("ETAB"), S("txi_12")>>),
    C(621, "get_array", <<S("ELEM"), S(""), S("ETAB"), S("txj_12")>>),
    C(626, "print", <<>>),
    C(608, "print", <<>>),
    C(609, "print", <<>>),
    C(614, "get_array", <<S("ELEM"), S(""), S("ETAB"), S("myi_12")>>),
    C(621, "get_array", <<S("ELEM"), S(""), S("ETAB"), S("myj_12")>>),
    C(626, "print", <<>>),
    C(608, "print", <<>>),
    C(609, "print", <<>>),
    C(614, "get_array", <<S("ELEM"), S(""), S("ETAB"), S("mzi_12")>>),
    C(621, "get_array", <<S("ELEM"), S(""), S("ETAB"), S("mzj_12")>>),
    C(626, "print", <<>>),
    C(581, "print", <<>>),
    C(582, "print", <<>>),
    C(583, "print", <<>>),
    C(608, "print", <<>>),
    C(609, "print", <<>>),
    C(614, "get_array", <<S("ELEM"), S(""), S("ETAB"), S("pxi_14")>>),
    C(621, "get_array", <<S("ELEM"), S(""), S("ETAB"), S("pxj_14")>>),
    C(626, "print", <<>>),
    C(608, "print", <<>>),
    C(609, "print", <<>>),
    C(614, "get_array", <<S("ELEM"), S(""), S("ETAB"), S("vyi_14")>>),
    C(621, "get_array", <<S("ELEM"), S(""), S("ETAB"), S("vyj_14")>>),
    C(626, "print", <<>>),
    C(608, "print", <<>>),
    C(609, "print", <<>>),
    C(614, "get_array", <<S("ELEM"), S(""), S("ETAB"), S("vzi_14")>>),
    C(621, "get_array", <<S("ELEM"), S(""), S("ETAB"), S("vzj_14")>>),
    C(626, "print", <<>>),
    C(608, "print", <<>>),
    C(609, "print", <<>>),
    C(614, "get_array", <<S("ELEM"), S(""), S("ETAB"), S("txi_14")>>),
    C(621, "get_array", <<S("ELEM"), S(""), S("ETAB"), S("txj_14")>>),
    C(626, "print", <<>>),
    C(608, "print", <<>>),
    C(609, "print", <<>>),
    C(614, "get_array", <<S("ELEM"), S(""), S("ETAB"), S("myi_14")>>),
    C(621, "get_array", <<S("ELEM"), S(""), S("ETAB"), S("myj_14")>>),
    C(626, "print", <<>>),
    C(608, "print", <<>>),
    C(609, "print", <<>>),
    C(614, "get_array", <<S("ELEM"), S(""), S("ETAB"), S("mzi_14")>>),
    C(621, "get_array", <<S("ELEM"), S(""), S("ETAB"), S("mzj_14")>>),
    C(626, "print", <<>>),
    C(632, "print", <<>>),
    C(633, "print", <<>>),
    C(638, "print", <<>>),
    C(643, "exit", <<>>)
  >>

\* doc/source/verif-manual/vm-012/vm12.py
DocVM12 ==
  <<
    Let("mapdl", C(14, "launch_mapdl", <<K("loglevel", S("WARNING")), K("print_com", X("True"))>>)),
    C(15, "clear", <<>>),
    C(18, "verify", <<S("vm12")>>),
    C(19, "prep7", <<>>),
    C(21, "antype", <<S("STATIC")>>),
    C(22, "et", <<I(1), S("PIPE16")>>),
    C(23, "r", <<I(1), F("4.67017"), F("2.33508")>>),
    C(24, "mp", <<S("EX"), I(1), F("30e6")>>),
    C(25, "mp", <<S("NUXY"), I(1), F("0.3")>>),
    C(26, "n", <<I(1)>>),
    C(27, "n", <<I(2), S(""), S(""), I(300)>>),
    C(28, "e", <<I(1), I(2)>>),
    C(29, "d", <<I(1), S("ALL")>>),
    C(30, "f", <<I(2), S("MZ"), I(9000)>>),
    C(31, "f", <<I(2), S("FX"), I(-250)>>),
    C(32, "finish", <<>>),
    C(33, "slashsolu", <<>>),
    C(34, "outpr", <<S("BASIC"), I(1)>>),
    C(35, "non_interactive.__enter__", <<>>),
    C(36, "run", <<S("/OUT,SCRATCH")>>),
    C(37, "solve", <<>>),
    C(38, "finish", <<>>),
    C(39, "post1", <<>>),
    C(40, "etable", <<S("P_STRS"), S("NMISC"), I(86)>>),
    C(41, "etable", <<S("SHR"), S("NMISC"), I(88)>>),
    C(42, "run", <<S("/OUT")>>),
    C(43, "run", <<S("/GOPR")>>),
    C(43, "non_interactive.__exit__", <<>>),
    C(44, "last_response", <<>>),
    C(45, "get", <<S("P_STRESS"), S("ELEM"), I(1), S("ETAB"), S("P_STRS")>>),
    C(46, "get", <<S("SHEAR"), S("ELEM"), I(1), S("ETAB"), S("SHR")>>),
    C(47, "dim", <<S("LABEL"), S("CHAR"), I(2), I(2)>>),
    C(48, "dim", <<S("VALUE"), S(""), I(2), I(3)>>),
    C(49, "run", <<S("LABEL(1,1) = 'MAX PRIN','MAX SH S'")>>),
    C(50, "run", <<S("LABEL(1,2) = 'STRS psi','TRS psi '")>>),
    C(51, "vfill", <<S("VALUE(1"), S("1)"), S("DATA"), I(7527), I(3777)>>),
    C(52, "vfill", <<S("VALUE(1"), S("2)"), S("DATA"), S("P_STRESS"), S("(SHEAR/2)")>>),
    C(53, "vfill", <<S("VALUE(1"), S("3)"), S("DATA"), S("ABS(P_STRESS/7527 )"), S("ABS((SHEAR/2)/3777 )")>>),
    C(54, "save", <<S("TABLE_1")>>),
    C(55, "run", <<S("FINI")>>),
    C(56, "run", <<S("/CLEAR,NOSTART")>>),
    C(58, "prep7", <<>>),
    C(59, "run", <<S("C***     USING PIPE288")>>),
    C(60, "run", <<S("ANTYPE,STATIC")>>),
    C(61, "et", <<I(1), S("PIPE288"), S(""), S(""), S(""), I(2)>>),
    C(62, "sectype", <<I(1), S("PIPE")>>),
    C(63, "secdata", <<F("4.67017"), F("2.33508")>>),
    C(64, "keyopt", <<I(1), I(3), I(3)>>),
    C(65, "mp", <<S("EX"), I(1), F("30e6")>>),
    C(66, "mp", <<S("NUXY"), I(1), F("0.3")>>),
    C(67, "n", <<I(1)>>),
    C(68, "n", <<I(2), S(""), S(""), I(300)>>),
    C(69, "e", <<I(1), I(2)>>),
    C(70, "d", <<I(1), S("ALL")>>),
    C(71, "f", <<I(2), S("MZ"), I(9000)>>),
    C(72, "f", <<I(2), S("FX"), I(-250)>>),
    C(73, "finish", <<>>),
    C(75, "slashsolu", <<>>),
    C(76, "outpr", <<S("BASIC"), I(1)>>),
    C(77, "non_interactive.__enter__", <<>>),
    C(78, "run", <<S("/OUT,SCRATCH")>>),
    C(79, "solve", <<>>),
    C(80, "finish", <<>>),
    C(81, "post1", <<>>),
    C(82, "set", <<S("LAST")>>),
    C(83, "graphics", <<S("POWER")>>),
    C(84, "eshape", <<I(1)>>),
    C(85, "view", <<I(1), I(1), I(1), I(1)>>),
    C(86, "plesol", <<S("S"), I(1)>>),
    C(87, "run", <<S("/OUT")>>),
    C(88, "run", <<S("/GOPR")>>),
    C(88, "non_interactive.__exit__", <<>>),
    C(89, "get", <<S("P_STRESS"), S("PLNSOL"), I(0), S("MAX")>>),
    C(90, "plesol", <<S("S"), S("INT")>>),
    C(91, "get", <<S("SHEAR"), S("PLNSOL"), I(0), S("MAX")>>),
    C(92, "dim", <<S("LABEL"), S("CHAR"), I(2), I(2)>>),
    C(93, "dim", <<S("VALUE"), S(""), I(2), I(3)>>),
    C(94, "run", <<S("LABEL(1,1) = 'MAX PRIN','MAX SH S'")>>),
    C(95, "run", <<S("LABEL(1,2) = 'STRS psi','TRS psi '")>>),
    C(96, "vfill", <<S("VALUE(1"), S("1)"), S("DATA"), I(7527), I(3777)>>),
    C(97, "vfill", <<S("VALUE(1"), S("2)"), S("DATA"), S("P_STRESS"), S("(SHEAR/2)")>>),
    C(98, "vfill", <<S("VALUE(1"), S("3)"), S("DATA"), S("ABS(P_STRESS/7527 )"), S("ABS((SHEAR/2)/3777 )")>>),
    C(99, "save", <<S("TABLE_2")>>),
    C(100, "run", <<S("FINI")>>),
    C(101, "run", <<S("/CLEAR,NOSTART")>>),
    C(102, "_run", <<S("/NOPR")>>),
    C(103, "com", <<S("")>>),
    C(105, "non_interactive.__enter__", <<>>),
    C(106, "run", <<S("/OUT,vm12,vrt")>>),
    C(107, "com", <<S("------------------- VM12 RESULTS COMPARISON ---------------------")>>),
    C(108, "com", <<S("")>>),
    C(109, "com", <<S("|   TARGET   |   Mechanical APDL   |   RATIO")>>),
    C(110, "com", <<S("")>>),
    C(111, "resume", <<S("TABLE_1")>>),
    C(112, "com", <<S("USING PIPE16")>>),
    C(113, "com", <<S("")>>),
    C(114, "run", <<S("*VWRITE,LABEL(1,1),LABEL(1,2),VALUE(1,1),VALUE(1,2),VALUE(1,3)")>>),
    C(115, "run", <<S("(1X,A8,A8,'   ',F10.0,'  ',F12.0,'   ',1F15.3)")>>),
    C(116, "com", <<S("")>>),
    C(117, "resume", <<S("TABLE_2")>>),
    C(118, "com", <<S("USING PIPE288")>>),
    C(119, "com", <<S("")>>),
    C(120, "run", <<S("*VWRITE,LABEL(1,1),LABEL(1,2),VALUE(1,1),VALUE(1,2),VALUE(1,3)")>>),
    C(121, "run", <<S("(1X,A8,A8,'   ',F10.0,'  ',F12.0,'   ',1F15.3)")>>),
    C(122, "com", <<S("")>>),
    C(123, "com", <<S("-----------------------------------------------------------------")>>),
    C(124, "run", <<S("/OUT")>>),
    C(125, "run", <<S("/GOPR")>>),
    C(125, "non_interactive.__exit__", <<>>),
    C(127, "finish", <<>>),
    C(128, "starlist", <<S("vm12"), S("vrt")>>),
    C(130, "exit", <<>>)
  >>

\* doc/source/technology_showcase_examples/techdemo-25/ex_25-tecstent.py
TD25 ==
  <<
    Let("mapdl", C(39, "launch_mapdl", <<>>)),
    C(40, "print", <<>>),
    C(48, "prep7", <<>>),
    C(49, "mptemp", <<>>),
    C(50, "mptemp", <<K("sloc", S("1")), K("t1", S("0"))>>),
    C(51, "mpdata", <<K("lab", S("EX")), K("mat", S("1")), K("c1", S("200e3"))>>),
    C(52, "mpdata", <<K("lab", S("PRXY")), K("mat", S("1")), K("c1", S("0.3"))>>),
    C(53, "mptemp", <<>>),
    C(54, "mptemp", <<K("sloc", S("1")), K("t1", S("0"))>>),
    C(55, "mpdata", <<K("lab", S("DENS")), K("mat", S("1")), K("c1", S("8000e-9"))>>),
    C(63, "prep7", <<>>),
    C(64, "mptemp", <<>>),
    C(65, "mptemp", <<K("sloc", S("1")), K("t1", S("0"))>>),
    C(66, "mpdata", <<K("lab", S("EX")), K("mat", S("1")), K("c1", S("200e3"))>>),
    C(67, "mpdata", <<K("lab", S("PRXY")), K("mat", S("1")), K("c1", S("0.3"))>>),
    C(68, "mptemp", <<>>),
    C(69, "mptemp", <<K("sloc", S("1")), K("t1", S("0"))>>),
    C(70, "mpdata", <<K("lab", S("DENS")), K("mat", S("1")), K("c1", S("8000e-9"))>>),
    C(78, "et", <<K("itype", S("1")), K("ename", S("beam189"))>>),
    C(79, "sectype", <<K("secid", S("1")), K("type_", S("beam")), K("subtype", S("csolid"))>>),
    C(80, "secdata", <<K("val1", F("0.05"))>>),
    C(83, "et", <<K("itype", S("2")), K("ename", S("beam189"))>>),
    C(84, "sectype", <<K("secid", S("2")), K("type_", S("beam")), K("subtype", S("csolid"))>>),
    C(85, "secdata", <<K("val1", F("0.05"))>>),
    C(99, "tb", <<K("lab", S("hyper")), K("mat", S("2")), K("npts", S("5")), K("tbopt", S("mooney"))>>),
    C(100, "tbdata", <<K("stloc", S("1")), K("c1", S("c10")), K("c2", S("c01")), K("c3", S("c20")), K("c4", S("c11")), K("c6", S("dd"))>>),
    C(107, "mp", <<K("lab", S("EX")), K("mat", S("3")), K("c0", S("00219e3"))>>),
    C(108, "mp", <<K("lab", S("NUXY")), K("mat", S("3")), K("c0", S("0.49"))>>),
    C(115, "et", <<K("itype", S("9")), K("ename", S("SOLID185"))>>),
    C(116, "keyopt", <<K("itype", S("9")), K("knum", S("6")), K("value", S("1"))>>),
    C(119, "keyopt", <<K("itype", S("9")), K("knum", S("2")), K("value", S("3"))>>),
    C(123, "et", <<K("itype", S("16")), K("ename", S("SOLID185"))>>),
    C(124, "keyopt", <<K("itype", S("16")), K("knum", S("2")), K("value", S("0"))>>),
    C(136, "mat", <<S("2")>>),
    C(137, "r", <<K("nset", S("3"))>>),
    C(138, "real", <<K("nset", S("3"))>>),
    C(139, "et", <<K("itype", S("3")), K("ename", S("170"))>>),
    C(140, "et", <<K("itype", S("4")), K("ename", S("174"))>>),
    C(141, "keyopt", <<K("itype", S("4")), K("knum", S("12")), K("value", S("5"))>>),
    C(142, "keyopt", <<K("itype", S("4")), K("knum", S("4")), K("value", S("1"))>>),
    C(143, "keyopt", <<K("itype", S("4")), K("knum", S("2")), K("value", S("2"))>>),
    C(144, "keyopt", <<K("itype", S("3")), K("knum", S("2")), K("value", S("1"))>>),
    C(145, "keyopt", <<K("itype", S("3")), K("knum", S("4")), K("value", S("111111"))>>),
    C(146, "type", <<K("itype", S("3"))>>),
    C(148, "mat", <<S("2")>>),
    C(149, "r", <<K("nset", S("4"))>>),
    C(150, "real", <<K("nset", S("4"))>>),
    C(151, "et", <<K("itype", S("5")), K("ename", S("170"))>>),
    C(152, "et", <<K("itype", S("6")), K("ename", S("174"))>>),
    C(153, "keyopt", <<K("itype", S("6")), K("knum", S("12")), K("value", S("5"))>>),
    C(154, "keyopt", <<K("itype", S("6")), K("knum", S("4")), K("value", S("1"))>>),
    C(155, "keyopt", <<K("itype", S("6")), K("knum", S("2")), K("value", S("2"))>>),
    C(156, "keyopt", <<K("itype", S("5")), K("knum", S("2")), K("value", S("1"))>>),
    C(157, "keyopt", <<K("itype", S("5")), K("knum", S("4")), K("value", S("111111"))>>),
    C(158, "type", <<K("itype", S("5"))>>),
    C(164, "mp", <<K("lab", S("MU")), K("mat", S("1")), K("c0", S("0"))>>),
    C(165, "mat", <<S("1")>>),
    C(166, "mp", <<K("lab", S("EMIS")), K("mat", S("1")), K("c0", S("7.88860905221e-31"))>>),
    C(167, "r", <<K("nset", S("6"))>>),
    C(168, "real", <<K("nset", S("6"))>>),
    C(169, "et", <<K("itype", S("10")), K("ename", S("170"))>>),
    C(170, "et", <<K("itype", S("11")), K("ename", S("177"))>>),
    C(171, "r", <<K("nset", S("6")), K("r3", S("1.0")), K("r4", S("1.0")), K("r5", S("0"))>>),
    C(172, "rmore", <<K("r9", S("1.0E20")), K("r10", S("0.0")), K("r11", S("1.0"))>>),
    C(173, "rmore", <<K("r7", S("0.0")), K("r8", S("0")), K("r9", S("1.0")), K("r10", S("0.05")), K("r11", S("1.0")), K("r12", S("0.5"))>>),
    C(174, "rmore", <<K("r7", S("0")), K("r8", S("1.0")), K("r9", S("1.0")), K("r10", S("0.0"))>>),
    C(175, "keyopt", <<K("itype", S("11")), K("knum", S("5")), K("value", S("0"))>>),
    C(176, "keyopt", <<K("itype", S("11")), K("knum", S("7")), K("value", S("1"))>>),
    C(177, "keyopt", <<K("itype", S("11")), K("knum", S("8")), K("value", S("0"))>>),
    C(178, "keyopt", <<K("itype", S("11")), K("knum", S("9")), K("value", S("0"))>>),
    C(179, "keyopt", <<K("itype", S("11")), K("knum", S("10")), K("value", S("2"))>>),
    C(180, "keyopt", <<K("itype", S("11")), K("knum", S("11")), K("value", S("0"))>>),
    C(181, "keyopt", <<K("itype", S("11")), K("knum", S("12")), K("value", S("0"))>>),
    C(182, "keyopt", <<K("itype", S("11")), K("knum", S("2")), K("value", S("3"))>>),
    C(183, "keyopt", <<K("itype", S("10")), K("knum", S("5")), K("value", S("0"))>>),
    C(187, "mat", <<S("1")>>),
    C(188, "r", <<K("nset", S("7"))>>),
    C(189, "real", <<K("nset", S("7"))>>),
    C(190, "et", <<K("itype", S("12")), K("ename", S("170"))>>),
    C(191, "et", <<K("itype", S("13")), K("ename", S("175"))>>),
    C(192, "keyopt", <<K("itype", S("13")), K("knum", S("12")), K("value", S("5"))>>),
    C(193, "keyopt", <<K("itype", S("13")), K("knum", S("4")), K("value", S("1"))>>),
    C(194, "keyopt", <<K("itype", S("13")), K("knum", S("2")), K("value", S("2"))>>),
    C(195, "keyopt", <<K("itype", S("12")), K("knum", S("2")), K("value", S("1"))>>),
    C(196, "keyopt", <<K("itype", S("12")), K("knum", S("4")), K("value", S("111111"))>>),
    C(197, "type", <<K("itype", S("12"))>>),
    C(201, "mat", <<S("1")>>),
    C(202, "r", <<K("nset", S("8"))>>),
    C(203, "real", <<K("nset", S("8"))>>),
    C(204, "et", <<K("itype", S("14")), K("ename", S("170"))>>),
    C(205, "et", <<K("itype", S("15")), K("ename", S("175"))>>),
    C(206, "keyopt", <<K("itype", S("15")), K("knum", S("12")), K("value", S("5"))>>),
    C(207, "keyopt", <<K("itype", S("15")), K("knum", S("4")), K("value", S("1"))>>),
    C(208, "keyopt", <<K("itype", S("15")), K("knum", S("2")), K("value", S("2"))>>),
    C(209, "keyopt", <<K("itype", S("14")), K("knum", S("2")), K("value", S("1"))>>),
    C(210, "keyopt", <<K("itype", S("14")), K("knum", S("4")), K("value", S("111111"))>>),
    C(211, "type", <<K("itype", S("14"))>>),
    C(218, "cdread", <<K("option", S("db")), K("fname", S("stent")), K("ext", S("cdb"))>>),
    C(219, "allsel", <<K("labt", S("all"))>>),
    C(220, "finish", <<>>),
    C(231, "run", <<S("/solu")>>),
    C(232, "antype", <<K("antype", S("0"))>>),
    C(233, "nlgeom", <<K("key", S("on"))>>),
    C(240, "nsubst", <<K("nsbstp", S("20")), K("nsbmx", S("20"))>>),
    C(241, "nropt", <<K("option1", S("full"))>>),
    C(242, "cncheck", <<K("option", S("auto"))>>),
    C(243, "esel", <<K("type_", S("s")), K("item", S("type")), K("vmin", S("11"))>>),
    C(244, "cm", <<K("cname", S("contact2")), K("entity", S("elem"))>>),
    C(245, "ekill", <<K("elem", S("contact2"))>>),
    C(249, "nsel", <<K("type_", S("s")), K("item", S("loc")), K("comp", S("x")), K("vmin", S("0")), K("vmax", S("0.01e-3"))>>),
    C(250, "nsel", <<K("type_", S("r")), K("item", S("loc")), K("comp", S("y")), K("vmin", S("0")), K("vmax", S("0.01e-3"))>>),
    C(251, "d", <<K("node", S("all")), K("lab", S("all"))>>),
    C(252, "allsel", <<>>),
    C(254, "sf", <<K("nlist", S("load")), K("lab", S("pres")), K("value", S("10e-2"))>>),
    C(257, "allsel", <<>>),
    C(258, "nldiag", <<K("label", S("cont")), K("key", S("iter"))>>),
    C(259, "solve", <<>>),
    C(260, "save", <<>>),
    C(266, "ealive", <<K("elem", S("contact2"))>>),
    C(267, "allsel", <<>>),
    C(269, "nsubst", <<K("nsbstp", S("2")), K("nsbmx", S("2"))>>),
    C(270, "save", <<>>),
    C(271, "solve", <<>>),
    C(278, "nsubst", <<K("nsbstp", S("1")), K("nsbmx", S("1")), K("nsbmn", S("1"))>>),
    C(279, "solve", <<>>),
    C(286, "nsubst", <<K("nsbstp", S("300")), K("nsbmx", S("3000")), K("nsbmn", S("30"))>>),
    C(287, "sf", <<K("nlist", S("load")), K("lab", S("pres")), K("value", S("13")), K("value2", S("3e-3"))>>),
    C(288, "allsel", <<>>),
    C(294, "stabilize", <<K("key", S("const")), K("method", S("energy")), K("value", S("0.1"))>>),
    C(301, "solve", <<>>),
    C(302, "save", <<>>),
    C(303, "finish", <<>>),
    C(308, "exit", <<>>),
    C(324, "post1", <<>>),
    C(325, "set", <<I(1), I(1)>>),
    C(326, "plnsol", <<S("u"), S("sum")>>),
    C(337, "result", <<>>),
    C(338, "result", <<>>),
    C(338, "result.plot_nodal_displacement", <<I(0)>>),
    C(347, "result_file", <<>>),
    C(349, "print", <<>>),
    C(363, "print", <<>>),
    C(376, "slashsolu", <<>>),
    C(377, "antype", <<S("spectr")>>),
    C(380, "spopt", <<S("psd")>>),
    C(384, "psdunit", <<I(1), S("accg"), F("9810.0")>>),
    C(387, "psdfrq", <<I(1), S(""), I(1), I(40), I(50), F("70.71678"), I(100), I(700), I(900)>>),
    C(390, "psdval", <<I(1), F("0.01"), F("0.01"), F("0.1"), I(1), I(10), I(10), I(1)>>),
    C(393, "dmprat", <<F("0.05")>>),
    C(397, "d", <<S("N_BASE_EXCITE"), S("uy"), I(1)>>),
    C(401, "pfact", <<I(1), S("base")>>),
    C(405, "psdres", <<S("disp"), S("rel")>>),
    C(408, "psdres", <<S("velo"), S("abs")>>),
    C(412, "psdres", <<S("acel"), S("abs")>>),
    C(415, "psdcom", <<>>),
    Let("output", C(416, "solve", <<>>)),
    C(417, "print", <<>>),
    C(438, "post1", <<>>),
    C(439, "set", <<I(1), I(1)>>),
    C(440, "plnsol", <<S("u"), S("sum")>>),
    C(441, "set", <<S("last")>>),
    C(442, "plnsol", <<S("u"), S("sum")>>),
    C(448, "post26", <<>>),
    C(451, "numvar", <<I(200)>>),
    C(452, "cmsel", <<S("s"), S("MY_MONITOR")>>),
    Let("monitored_node", C(453, "queries.ndnext", <<I(0)>>)),
    C(454, "store", <<S("psd")>>),
    C(457, "nsol", <<I(2), X("monitored_node"), S("u"), S("y")>>),
    C(461, "rpsd", <<I(3), I(2)>>),
    C(462, "show", <<S("png")>>),
    C(465, "plvar", <<I(3)>>),
    C(468, "prvar", <<I(3)>>),
    C(471, "gropt", <<S("logx"), I(1)>>),
    C(474, "gropt", <<S("logy"), I(1)>>),
    C(477, "plvar", <<I(3)>>),
    C(478, "show", <<S("close")>>),
    C(485, "dim", <<S("frequencies"), S("array"), I(4000), I(1)>>),
    C(486, "dim", <<S("response"), S("array"), I(4000), I(1)>>),
    C(487, "vget", <<S("frequencies"), I(1)>>),
    C(488, "vget", <<S("response"), I(3)>>),
    C(489, "parameters.__getitem__", <<S("frequencies")>>),
    C(490, "parameters.__getitem__", <<S("response")>>),
    C(503, "exit", <<>>)
  >>

(***************************************************************************)
(* VM298: the PSD loop, lines 319-344, the only loop whose trip count is   *)
(* too large to write out.                                                 *)
(***************************************************************************)
\* number of stories (vm-298.py line 143)
_N == 40

\* frequency points of the input spectrum that the model enumerates
\* (FREQ_PTS = 120 in vm-298.py line 252)
FreqPts == 1

\* an expression that depends on the loop index i
Xi(t, i) == <<"x", t, i>>

\* for k in range(j, _N): for i in range(FREQ_PTS): psdfrq; psdval or coval
PsdTable(j) ==
  [x \in 1..(2 * (_N - j) * FreqPts) |->
     LET p == (x - 1) \div 2
         k == j + (p \div FreqPts)
         i == p % FreqPts
     IN  IF x % 2 = 1
           THEN C(325, "psdfrq", <<I(j), I(k), Xi("FREQ_ARRAY[i][0]", i)>>)
           ELSE IF j = k
                  THEN C(327, "psdval", <<I(j), Xi("COPHIFF[j, j, i] * _FACT", i)>>)
                  ELSE C(329, "coval", <<I(j), I(k), Xi("COPHIFF[j, k, i] * _FACT", i)>>)]

\* the graph of the applied spectrum, drawn for j == 40 and for j == 1
PsdGraph(j) ==
  (IF j = 40
     THEN << C(331, "show", <<S("PNG"), S("REV")>>),
             C(332, "plopts", <<S("DATE"), I(0)>>),
             C(334, "psdgraph", <<I(j - 1), I(j), I(3)>>) >>
     ELSE << >>)
  \o
  (IF j = 1
     THEN << C(336, "show", <<S("PNG"), S("REV")>>),
             C(337, "plopts", <<S("DATE"), I(0)>>),
             C(338, "psdgraph", <<I(j - 1), I(j), I(3)>>) >>
     ELSE << >>)

\* one pass of the loop over j
PsdFloor(j) ==
  << C(322, "psdunit", <<I(j), S("FORC")>>) >>
  \o PsdTable(j)
  \o PsdGraph(j)
  \o << C(340, "fdele", <<I(j), S("FX")>>),
        C(342, "f", <<I(j + 1), S("FX"), F("1.0")>>),
        C(344, "pfact", <<I(j), S("NODE")>>) >>

\* for j in range(lo, hi + 1)
RECURSIVE PsdFloors(_, _)
PsdFloors(lo, hi) ==
  IF lo > hi THEN << >>
  ELSE IF lo = hi THEN PsdFloor(lo)
  ELSE LET m == (lo + hi) \div 2 IN PsdFloors(lo, m) \o PsdFloors(m + 1, hi)

\* with mapdl.non_interactive: for j in range(1, _N): ...
VM298_PsdLoop ==
  << C(319, "non_interactive.__enter__", << >>) >>
  \o PsdFloors(1, _N - 1)
  \o << C(344, "non_interactive.__exit__", << >>) >>

VM298 == VM298_part1 \o VM298_PsdLoop \o VM298_part2

\* the scripts by name
Scripts ==
  [ TD28 |-> TD28, TD62 |-> TD62, VM1 |-> VM1, VM8 |-> VM8, VM11 |-> VM11,
    VM12 |-> VM12, VM13 |-> VM13, VM14 |-> VM14, VM15 |-> VM15, VM16 |-> VM16,
    VM18 |-> VM18, VM20 |-> VM20, VM21 |-> VM21, VM25 |-> VM25, VM291 |-> VM291,
    VM295 |-> VM295, VM298 |-> VM298, VM299 |-> VM299, NR1677 |-> NR1677,
    DocVM12 |-> DocVM12, TD25 |-> TD25 ]

ScriptNames == DOMAIN Scripts

(***************************************************************************)
(* State.                                                                  *)
(***************************************************************************)
VARIABLES
  script,   \* the script that runs
  pc,       \* index of its next call
  status,   \* "running", "failed" (a call raised), "done" (ran off the end)
  client,   \* the PyMAPDL client object of the script
  server,   \* the MAPDL process the client talks to
  py        \* VM8: the instances of Create and the variables of the script

vars == <<script, pc, status, client, server, py>>

\* the call the interpreter is about to make
Cmd == Scripts[script][pc]

AtCall == status = "running" /\ pc <= Len(Scripts[script])

(***************************************************************************)
(* Reading the arguments of a call.                                        *)
(***************************************************************************)
Positional(args) == SelectSeq(args, LAMBDA a : a[1] # "k")

Keyword(args, name) == SelectSeq(args, LAMBDA a : a[1] = "k" /\ a[2] = name)

\* the argument passed for a parameter, by keyword or by position, blank if
\* it is not passed
Arg(c, pos, name) ==
  IF Keyword(c.args, name) # << >> THEN Keyword(c.args, name)[1][3]
  ELSE IF pos <= Len(Positional(c.args)) THEN Positional(c.args)[pos]
  ELSE S("")

IsInt(a) == a[1] = "i"
IsStr(a, s) == a[1] = "s" /\ a[2] = s
StrIn(a, ss) == a[1] = "s" /\ a[2] \in ss

(***************************************************************************)
(* The solver.                                                             *)
(***************************************************************************)
\* upper case spelling of the command strings the scripts pass to run()
RunEnters ==
  [ x \in {"/SOLU", "/solu"} |-> "solu" ]

\* a session that slashsolu() does not move to the solution processor
Enters_SoluIgnored(c) ==
  CASE c.op = "prep7" -> "prep7"
    [] c.op = "post1" -> "post1"
    [] c.op = "post26" -> "post26"
    [] c.op = "finish" -> "begin"
    [] c.op \in {"run", "_run"} /\ Arg(c, 1, "command")[1] = "s"
         /\ Arg(c, 1, "command")[2] \in DOMAIN RunEnters
         -> RunEnters[Arg(c, 1, "command")[2]]
    [] c.op \in {"run", "_run"} /\ Arg(c, 1, "command")[1] = "s"
         /\ Arg(c, 1, "command")[2] \in {"FINI", "/CLEAR,NOSTART"} -> "begin"
    [] c.op = "clear" -> "begin"
    [] OTHER -> ""

\* the processor a command enters, "" if it enters none
Enters(c) ==
  CASE c.op = "prep7" -> "prep7"
    [] c.op = "slashsolu" -> "solu"
    [] c.op = "post1" -> "post1"
    [] c.op = "post26" -> "post26"
    [] c.op = "finish" -> "begin"
    [] c.op \in {"run", "_run"} /\ Arg(c, 1, "command")[1] = "s"
         /\ Arg(c, 1, "command")[2] \in DOMAIN RunEnters
         -> RunEnters[Arg(c, 1, "command")[2]]
    [] c.op \in {"run", "_run"} /\ Arg(c, 1, "command")[1] = "s"
         /\ Arg(c, 1, "command")[2] \in {"FINI", "/CLEAR,NOSTART"} -> "begin"
    [] c.op = "clear" -> "begin"
    [] OTHER -> ""

\* /CLEAR: the database is reset
IsClear(c) ==
  \/ c.op = "clear"
  \/ c.op \in {"run", "_run"} /\ IsStr(Arg(c, 1, "command"), "/CLEAR,NOSTART")

IsSolve(c) == c.op = "solve"

\* entities of *GET that are results of a solution
ResultEntities == {"PLNSOL", "plnsol", "FSUM", "SECR", "VARI", "MODE", "ACTIVE"}

\* items of *GET,par,NODE / ELEM that are results of a solution
ResultItems == {"U", "S", "ROT", "PRES", "ENKE", "ETAB"}

IsResult(entity, item) ==
  /\ entity[1] = "s"
  /\ \/ entity[2] \in ResultEntities
     \/ entity[2] \in {"NODE", "ELEM"} /\ item[1] = "s" /\ item[2] \in ResultItems

\* the command reads the results of a solution: SET, and the *GET family
\* (get(par, entity, entnum, item1, ...), get_value / get_array(entity,
\* entnum, item1, ...)) on a result item
ReadsResults(c) ==
  \/ c.op = "set"
  \/ c.op = "get" /\ IsResult(Arg(c, 2, "entity"), Arg(c, 4, "item1"))
  \/ c.op \in {"get_value", "get_array"}
       /\ IsResult(Arg(c, 1, "entity"), Arg(c, 3, "item1"))

(***************************************************************************)
(* Numbers.  Coordinates are kept in tenths, squares of lengths in         *)
(* hundredths, lengths and quotients in units of 10^-5.                    *)
(***************************************************************************)
\* the float literals that are used as coordinates, in tenths
FloatTenths(t) ==
  CASE t = "1.5" -> 15
    [] t = "2.5" -> 25
    [] t = "3.5" -> 35
    [] t = "-3.7" -> -37
    [] t = "4.6" -> 46

FloatLiterals == {"1.5", "2.5", "3.5", "-3.7", "4.6"}

\* the argument is a number the model can compute with; a blank field of a
\* command is zero
IsNum(a) ==
  \/ a[1] = "i"
  \/ a[1] = "t"
  \/ a[1] = "f" /\ a[2] \in FloatLiterals
  \/ a[1] = "s" /\ a[2] = ""

Tenths(a) ==
  CASE a[1] = "i" -> 10 * a[2]
    [] a[1] = "t" -> a[2]
    [] a[1] = "f" -> FloatTenths(a[2])
    [] OTHER -> 0

\* a length, in units of 10^-5
Len5(m) == <<"r", m>>

\* an offset, in tenths
Off(n) == <<"t", n>>

\* a Python list of values
L(items) == <<"l", items>>

\* floor of the square root of n, n >= 0, found by bisection in lo..hi
RECURSIVE Bisect(_, _, _)
Bisect(n, lo, hi) ==
  IF lo = hi THEN lo
  ELSE LET m == (lo + hi + 1) \div 2
       IN  IF m * m <= n THEN Bisect(n, m, hi) ELSE Bisect(n, lo, m - 1)

ISqrt(n) == Bisect(n, 0, IF n < 46340 THEN n ELSE 46340)

\* the next decimal digit of a square root, by the long-hand method: p is
\* the root so far, r the remainder brought down
NextDigit(p, r) ==
  CHOOSE d \in 0..9 :
    /\ (20 * p + d) * d <= r
    /\ d < 9 => (20 * p + d + 1) * (d + 1) > r

\* floor(sqrt(n) * 10^k), as the pair <<root, remainder>>
RECURSIVE SqrtDigits(_, _)
SqrtDigits(n, k) ==
  IF k = 0 THEN <<ISqrt(n), n - ISqrt(n) * ISqrt(n)>>
  ELSE LET pr == SqrtDigits(n, k - 1)
           d  == NextDigit(pr[1], 100 * pr[2])
       IN  <<10 * pr[1] + d, 100 * pr[2] - (20 * pr[1] + d) * d>>

\* the square of the distance of two points given in tenths, in hundredths
Dist2(p, q) ==
  (q[1] - p[1]) * (q[1] - p[1]) + (q[2] - p[2]) * (q[2] - p[2])
    + (q[3] - p[3]) * (q[3] - p[3])

\* sqrt(dx^2 + dy^2 + dz^2) of two points whose coordinates are arguments
Distance(a, b) ==
  LET p == <<Tenths(a[1]), Tenths(a[2]), Tenths(a[3])>>
      q == <<Tenths(b[1]), Tenths(b[2]), Tenths(b[3])>>
  IN  Len5(SqrtDigits(Dist2(p, q), 4)[1])

(***************************************************************************)
(* The database of the solver.                                             *)
(***************************************************************************)
\* f with the entry of key k set to v
Put(f, k, v) == [x \in (DOMAIN f) \cup {k} |-> IF x = k THEN v ELSE f[x]]

EmptyDb ==
  [ kps    |-> << >>,     \* keypoint number -> <<x, y, z>>
    nodes  |-> << >>,     \* node number -> <<x, y, z>>
    elems  |-> << >>,     \* element number -> the nodes it connects
    fixed  |-> {},        \* D: the constrained <<node, label>>
    loads  |-> << >>,     \* F: <<node, label>> -> value
    sel    |-> [all |-> TRUE, known |-> TRUE, nodes |-> {}, at |-> 0,
                crit |-> << >>],
                          \* the selected nodes and the command that chose them
    reac   |-> << >>,     \* support -> reaction FY found by the last SOLVE
    fsum   |-> [at |-> 0, sel |-> {}, selAt |-> 0, solve |-> 0, FY |-> X("FSUM")],
                          \* the last FSUM: its position, the nodes it summed
                          \* over, the command that had selected them
    solved |-> 0,         \* position of the SOLVE whose results are held
    etab   |-> << >>,     \* element table label -> SOLVE it was filled from
    plot   |-> 0,         \* SOLVE whose results the last plot displayed
    params |-> << >>,     \* parameter -> what *GET stored in it
    recent |-> << >>,     \* the last two nodes defined by N
    et     |-> << >>,     \* element type number -> element name
    eall   |-> TRUE,      \* all elements are selected
    ecrit  |-> << >>,     \* the criteria that selected the elements
    comps  |-> << >>,     \* component -> kind of entity and criteria
    dead   |-> {},        \* the deactivated elements
    defined |-> {},       \* the parameters that are defined
    pres   |-> << >>,     \* SFE: <<element, face, label>> -> value
    surf   |-> << >>,     \* SF: <<node list, criteria, label>> -> values
    omega  |-> <<S(""), S(""), S("")>>,  \* OMEGA: the angular velocity
    opts   |-> << >>,     \* solution option -> the arguments last given
    psd    |-> [unit |-> {}, val |-> {}, co |-> {}, pfact |-> << >>, graph |-> {}],
                          \* the PSD tables: those with a unit, the values and
                          \* covalues defined, the nodal forces at each
                          \* PFACT, the pairs of tables graphed
    reply  |-> S("") ]    \* what the last command returned to the client

\* the coordinates a K or N command gives: blank fields stay blank
Coords(c) == <<Arg(c, 2, "x"), Arg(c, 3, "y"), Arg(c, 4, "z")>>

\* what KDIST / NDIST report for the entities a and b of the table t: the
\* distance and the offsets in x, y and z
DistReply(t, a, b) ==
  IF /\ a \in DOMAIN t /\ b \in DOMAIN t
     /\ \A i \in 1..3 : IsNum(t[a][i]) /\ IsNum(t[b][i])
    THEN L(<<Distance(t[a], t[b]),
             Off(Tenths(t[b][1]) - Tenths(t[a][1])),
             Off(Tenths(t[b][2]) - Tenths(t[a][2])),
             Off(Tenths(t[b][3]) - Tenths(t[a][3]))>>)
    ELSE L(<<X("dist"), X("x"), X("y"), X("z")>>)

\* a range that ignores the increment
NodeRange_EveryNode(node, nend, ninc) ==
  IF IsInt(node) /\ IsInt(nend)
    THEN {I(k) : k \in node[2]..nend[2]}
    ELSE {node}

\* the nodes a command with the fields NODE, NEND, NINC addresses: NODE to
\* NEND in steps of NINC, NODE alone if NEND is blank
NodeRange(node, nend, ninc) ==
  IF IsInt(node) /\ IsInt(nend)
    THEN LET step == IF IsInt(ninc) /\ ninc[2] > 0 THEN ninc[2] ELSE 1
         IN  {I(k) : k \in {j \in node[2]..nend[2] : (j - node[2]) % step = 0}}
    ELSE {node}

\* the labels a D command gives: Lab and Lab2 ... Lab6
DLabels(c) ==
  {Arg(c, 2, "lab")} \cup
  ({Arg(c, 7, "lab2"), Arg(c, 8, "lab3"), Arg(c, 9, "lab4"),
    Arg(c, 10, "lab5"), Arg(c, 11, "lab6")} \ {S("")})

\* D,node,lab,value,value2,nend,ninc,lab2,...
DCmd(db, c) ==
  [db EXCEPT !.fixed = @ \cup
     (NodeRange(Arg(c, 1, "node"), Arg(c, 5, "nend"), Arg(c, 6, "ninc"))
        \X DLabels(c))]

\* an F that leaves the force as it is where the value is blank
FCmd_BlankKeeps(db, c) ==
  LET ns == NodeRange(Arg(c, 1, "node"), Arg(c, 5, "nend"), Arg(c, 6, "ninc"))
      ks == ns \X {Arg(c, 2, "lab")}
  IN  [db EXCEPT !.loads =
         [k \in (DOMAIN @) \cup ks |->
            IF k \in ks /\ (Arg(c, 3, "value") # S("") \/ k \notin DOMAIN @)
              THEN Arg(c, 3, "value") ELSE @[k]]]

\* F,node,lab,value,value2,nend,ninc
FCmd(db, c) ==
  LET ns == NodeRange(Arg(c, 1, "node"), Arg(c, 5, "nend"), Arg(c, 6, "ninc"))
      ks == ns \X {Arg(c, 2, "lab")}
  IN  [db EXCEPT !.loads =
         [k \in (DOMAIN @) \cup ks |-> IF k \in ks THEN Arg(c, 3, "value") ELSE @[k]]]

\* a deletion that takes place only where the label is ALL or blank
Deleted_AllOnly(ks, c) ==
  LET ns == NodeRange(Arg(c, 1, "node"), Arg(c, 3, "nend"), Arg(c, 4, "ninc"))
  IN  {k \in ks : k[1] \in ns /\ StrIn(Arg(c, 2, "lab"), {"ALL", "all", ""})}

\* DDELE / FDELE,node,lab,nend,ninc: the <<node, label>> they remove from ks
Deleted(ks, c) ==
  LET ns == NodeRange(Arg(c, 1, "node"), Arg(c, 3, "nend"), Arg(c, 4, "ninc"))
      node == Arg(c, 1, "node")
      lab == Arg(c, 2, "lab")
  IN  {k \in ks :
         /\ StrIn(node, {"ALL", "all"}) \/ k[1] \in ns
         /\ StrIn(lab, {"ALL", "all", ""}) \/ k[2] = lab}

\* a coordinate given in tenths, as the scripts write it where it is whole
FromTenths(t) == IF t % 10 = 0 THEN I(t \div 10) ELSE Off(t)

\* the coordinates of the node n are numbers
Located(db, n) ==
  n \in DOMAIN db.nodes /\ \A x \in 1..3 : IsNum(db.nodes[n][x])

\* FILL,node1,node2,nfill,nstrt,ninc,itime,inc,space: nodes on the line
\* between two nodes, by default the last two defined, evenly spaced unless
\* a spacing ratio is given; where a coordinate is not a multiple of 0.1 or
\* the spacing is biased the coordinate is not followed
FillCmd(db, c) ==
  LET n1 == IF Arg(c, 1, "node1") = S("") /\ Len(db.recent) = 2
              THEN db.recent[1] ELSE Arg(c, 1, "node1")
      n2 == IF Arg(c, 2, "node2") = S("") /\ Len(db.recent) = 2
              THEN db.recent[2] ELSE Arg(c, 2, "node2")
  IN  IF IsInt(n1) /\ IsInt(n2) /\ n2[2] > n1[2]
        THEN
          LET nfill == IF IsInt(Arg(c, 3, "nfill")) THEN Arg(c, 3, "nfill")[2]
                       ELSE n2[2] - n1[2] - 1
              step  == (n2[2] - n1[2]) \div (nfill + 1)
              even  == /\ Arg(c, 8, "space") \in {S(""), I(1)}
                       /\ Located(db, n1) /\ Located(db, n2)
              at(k, x) ==
                LET a == Tenths(db.nodes[n1][x])
                    b == Tenths(db.nodes[n2][x])
                IN  IF even /\ ((b - a) * k) % (nfill + 1) = 0
                      THEN FromTenths(a + ((b - a) * k) \div (nfill + 1))
                      ELSE X("fill")
              new == {I(n1[2] + k * step) : k \in 1..nfill}
          IN  [db EXCEPT
                 !.nodes = [n \in (DOMAIN @) \cup new |->
                              IF n \in new
                                THEN [x \in 1..3 |-> at((n[2] - n1[2]) \div step, x)]
                                ELSE @[n]],
                 !.reply = X("fill")]
        ELSE [db EXCEPT !.reply = X("fill")]

\* NGEN,itime,inc,node1,node2,ninc,dx,dy,dz: itime - 1 copies of the nodes
\* node1 to node2, the numbers raised by inc and the coordinates by dx, dy,
\* dz from one copy to the next
NGenCmd(db, c) ==
  LET itime == Arg(c, 1, "itime")
      inc   == Arg(c, 2, "inc")
      d     == <<Arg(c, 6, "dx"), Arg(c, 7, "dy"), Arg(c, 8, "dz")>>
      src   == NodeRange(Arg(c, 3, "node1"), Arg(c, 4, "node2"), Arg(c, 5, "ninc"))
                 \cap DOMAIN db.nodes
  IN  IF IsInt(itime) /\ IsInt(inc) /\ \A n \in src : IsInt(n)
        THEN
          LET new == {I(n[2] + t * inc[2]) : n \in src, t \in 1..(itime[2] - 1)}
              from(m) == CHOOSE n \in src :
                           \E t \in 1..(itime[2] - 1) : m[2] = n[2] + t * inc[2]
              times(m) == (m[2] - from(m)[2]) \div inc[2]
          IN  [db EXCEPT
                 !.nodes = [m \in (DOMAIN @) \cup new |->
                              IF m \in new
                                THEN [x \in 1..3 |->
                                        IF Located(db, from(m)) /\ IsNum(d[x])
                                          THEN FromTenths(Tenths(db.nodes[from(m)][x])
                                                 + times(m) * Tenths(d[x]))
                                          ELSE X("ngen")]
                                ELSE @[m]],
                 !.reply = X("ngen")]
        ELSE [db EXCEPT !.reply = X("ngen")]

\* the degrees of freedom of the nodes of an element type
ElementDofs(name) ==
  CASE name = "SHELL208" -> {"UX", "UY", "ROTZ"}
    [] name \in {"LINK180", "PLANE42", "PLANE182"} -> {"UX", "UY", "UZ"}
    [] OTHER -> {"UX", "UY", "UZ", "ROTX", "ROTY", "ROTZ"}

\* the degrees of freedom of the model: those of its element types
Dofs(db) ==
  UNION {IF db.et[t][1] = "s" THEN ElementDofs(db.et[t][2]) ELSE {} :
           t \in DOMAIN db.et}

\* the constraints with the label ALL of the nodes ns written out, one for
\* each degree of freedom
Expanded(db, ns) ==
  (db.fixed \ (ns \X {S("ALL")})) \cup
    {<<n, S(d)>> : n \in {m \in ns : <<m, S("ALL")>> \in db.fixed}, d \in Dofs(db)}

\* a DDELE that frees the node whatever the label
DDeleCmd_WholeNode(db, c) ==
  [db EXCEPT !.fixed = {k \in @ : k[1] # Arg(c, 1, "node")},
             !.reply = X("ddele")]

\* DDELE,node,lab,nend,ninc: a label other than ALL frees that degree of
\* freedom and leaves the others of the node constrained
DDeleCmd(db, c) ==
  LET ns == NodeRange(Arg(c, 1, "node"), Arg(c, 3, "nend"), Arg(c, 4, "ninc"))
      fx == IF StrIn(Arg(c, 2, "lab"), {"ALL", "all", ""}) THEN db.fixed
            ELSE Expanded(db, ns)
  IN  [db EXCEPT !.fixed = fx \ Deleted(fx, c), !.reply = X("ddele")]

\* SFE,elem,lkey,lab,kval,val1: the load on a face of the element, or of
\* all elements
SfeCmd(db, c) ==
  LET elem == Arg(c, 1, "elem")
      es == IF StrIn(elem, {"ALL", "all"})
              THEN IF db.eall THEN {I(e) : e \in 1..Len(db.elems)}
                   ELSE {X("selected")}
              ELSE {elem}
      ks == es \X {Arg(c, 2, "lkey")} \X {Arg(c, 3, "lab")}
  IN  [db EXCEPT
         !.pres = [k \in (DOMAIN @) \cup ks |->
                     IF k \in ks THEN Arg(c, 5, "val1") ELSE @[k]],
         !.reply = X("sfe")]

\* the surface SF loads: the nodes of a component, or the selected nodes,
\* which are known by the criteria that selected them
Surface(db, nlist) ==
  IF StrIn(nlist, {"", "ALL", "all"}) THEN <<S("ALL"), db.sel.crit>>
  ELSE <<nlist, << >>>>

\* an SF that leaves a surface that is loaded as it is
SfCmd_FirstWins(db, c) ==
  LET k == <<Surface(db, Arg(c, 1, "nlist")), Arg(c, 2, "lab")>>
  IN  [db EXCEPT
         !.surf = IF k \in DOMAIN @ THEN @
                  ELSE Put(@, k, <<Arg(c, 3, "value"), Arg(c, 4, "value2")>>),
         !.reply = X("sf")]

\* SF,nlist,lab,value,value2: the load on the surface, replacing the one it
\* carried
SfCmd(db, c) ==
  [db EXCEPT
     !.surf = Put(@, <<Surface(db, Arg(c, 1, "nlist")), Arg(c, 2, "lab")>>,
                  <<Arg(c, 3, "value"), Arg(c, 4, "value2")>>),
     !.reply = X("sf")]

\* the criteria that describe the selected elements after the ESEL c: none
\* for ESEL,ALL, the criterion alone for a new set (type S), otherwise the
\* criteria so far and this one
ECriteria(db, c) ==
  LET crit == <<Arg(c, 1, "type_"), Arg(c, 2, "item"), Arg(c, 3, "comp"),
                Arg(c, 4, "vmin"), Arg(c, 5, "vmax")>>
  IN  IF StrIn(Arg(c, 1, "type_"), {"ALL", "all"}) THEN << >>
      ELSE IF StrIn(Arg(c, 1, "type_"), {"S", "s"}) THEN <<crit>>
      ELSE Append(db.ecrit, crit)

\* ESEL: all elements are selected after ESEL,ALL only
ESelCmd(db, c) ==
  [db EXCEPT !.eall = StrIn(Arg(c, 1, "type_"), {"ALL", "all"}),
             !.ecrit = ECriteria(db, c),
             !.reply = X("esel")]

\* CM,cname,entity: the component holds the selected entities of that kind,
\* which are known by the criteria that selected them
CmCmd(db, c) ==
  [db EXCEPT
     !.comps = Put(@, Arg(c, 1, "cname"),
                   [entity |-> Arg(c, 2, "entity"),
                    crit |-> IF StrIn(Arg(c, 2, "entity"), {"ELEM", "elem"})
                               THEN db.ecrit ELSE db.sel.crit]),
     !.reply = X("cm")]

\* the elements EKILL and EALIVE act on: those of the component of that
\* name, the selected ones for ALL, otherwise the element of that number
Elements(db, elem) ==
  IF elem \in DOMAIN db.comps THEN <<"comp", db.comps[elem].crit>>
  ELSE IF StrIn(elem, {"ALL", "all"}) THEN <<"comp", db.ecrit>>
  ELSE <<"elem", elem>>

\* EKILL,elem: the elements are deactivated
EKillCmd(db, c) ==
  [db EXCEPT !.dead = @ \cup {Elements(db, Arg(c, 1, "elem"))},
             !.reply = X("ekill")]

\* an EALIVE that leaves the elements as they are
EAliveCmd_Ignored(db, c) ==
  [db EXCEPT !.reply = X("ealive")]

\* EALIVE,elem: the elements are reactivated
EAliveCmd(db, c) ==
  [db EXCEPT !.dead = @ \ {Elements(db, Arg(c, 1, "elem"))},
             !.reply = X("ealive")]

\* E,i,j,...: the next element
ECmd(db, c) ==
  [db EXCEPT !.elems = Append(@, Positional(c.args)),
             !.reply = I(Len(db.elems) + 1)]

\* the element EGEN repeats: IEL1, or the last one defined if IEL1 is -1
Pattern(db, iel1) == IF iel1[2] = -1 THEN Len(db.elems) ELSE iel1[2]

\* EGEN,itime,ninc,iel1: itime - 1 copies of the element iel1, the node
\* numbers raised by ninc from one copy to the next; other forms are not
\* followed
EGenCmd(db, c) ==
  LET itime == Arg(c, 1, "itime")
      ninc  == Arg(c, 2, "ninc")
      iel1  == Arg(c, 3, "iel1")
  IN  IF /\ IsInt(itime) /\ IsInt(ninc) /\ IsInt(iel1)
         /\ Len(Positional(c.args)) = 3
         /\ iel1[2] \in (1..Len(db.elems)) \cup {-1}
         /\ Len(db.elems) > 0
         /\ \A x \in 1..Len(db.elems[Pattern(db, iel1)]) :
               IsInt(db.elems[Pattern(db, iel1)][x])
        THEN [db EXCEPT !.elems = @ \o
                [t \in 1..(itime[2] - 1) |->
                   [x \in 1..Len(db.elems[Pattern(db, iel1)]) |->
                      I(db.elems[Pattern(db, iel1)][x][2] + t * ninc[2])]]]
        ELSE [db EXCEPT !.elems = Append(@, <<X("egen")>>)]

\* the coordinates of all nodes are numbers
NodesKnown(db) ==
  \A n \in DOMAIN db.nodes : \A k \in 1..3 : IsNum(db.nodes[n][k])

\* the index of the coordinate X, Y or Z
Axis(comp) == CASE comp \in {"X", "x"} -> 1 [] comp \in {"Y", "y"} -> 2 [] OTHER -> 3

\* the criteria that describe the selected nodes after the NSEL c: a new
\* set (type S) is described by the criterion alone, any other type by the
\* criteria so far and this one
Criteria(db, c) ==
  LET crit == <<Arg(c, 1, "type_"), Arg(c, 2, "item"), Arg(c, 3, "comp"),
                Arg(c, 4, "vmin"), Arg(c, 5, "vmax")>>
  IN  IF StrIn(Arg(c, 1, "type_"), {"S", "s"}) THEN <<crit>>
      ELSE Append(db.sel.crit, crit)

\* NSEL,type,item,comp,vmin: followed for NSEL,ALL and for NSEL,S,LOC,comp,
\* vmin, which selects the nodes whose coordinate is vmin
NSelCmd(db, i, c) ==
  LET type == Arg(c, 1, "type_")
      item == Arg(c, 2, "item")
      comp == Arg(c, 3, "comp")
      vmin == Arg(c, 4, "vmin")
      vmax == Arg(c, 5, "vmax")
  IN  IF StrIn(type, {"ALL", "all"})
        THEN [db EXCEPT !.sel = [all |-> TRUE, known |-> TRUE, nodes |-> {}, at |-> i,
                                 crit |-> << >>]]
      ELSE IF /\ StrIn(type, {"S", "s"}) /\ StrIn(item, {"LOC", "loc"})
              /\ StrIn(comp, {"X", "x", "Y", "y", "Z", "z"})
              /\ IsInt(vmin) /\ vmax = S("") /\ NodesKnown(db)
        THEN [db EXCEPT !.sel =
                [all |-> FALSE, known |-> TRUE, at |-> i,
                 crit |-> Criteria(db, c),
                 nodes |-> {n \in DOMAIN db.nodes :
                              Tenths(db.nodes[n][Axis(comp[2])]) = Tenths(vmin)}]]
      ELSE [db EXCEPT !.sel = [all |-> FALSE, known |-> FALSE, nodes |-> {}, at |-> i,
                               crit |-> Criteria(db, c)]]

\* the selected nodes
Selected(db) == IF db.sel.all THEN DOMAIN db.nodes ELSE db.sel.nodes

(***************************************************************************)
(* SOLVE of a bar: nodes on the y axis joined one to the next by two-node  *)
(* elements of one section and one material, the two end nodes fully       *)
(* constrained, forces FY at nodes between them.  With P the load and R1,  *)
(* R2 the reactions, P = R1 + R2 and each load is shared between the       *)
(* supports in the inverse ratio of its distances from them.               *)
(***************************************************************************)
\* the y coordinate of the node n, in tenths
NodeY(db, n) == Tenths(db.nodes[n][2])

\* the fully constrained nodes
Supports(db) == {n \in DOMAIN db.nodes : <<n, S("ALL")>> \in db.fixed}

\* a and b are neighbours on the axis
Adjacent(db, a, b) ==
  /\ NodeY(db, a) < NodeY(db, b)
  /\ ~ \E m \in DOMAIN db.nodes : NodeY(db, a) < NodeY(db, m) /\ NodeY(db, m) < NodeY(db, b)

IsBar(db) ==
  /\ DOMAIN db.nodes # {}
  /\ \A n \in DOMAIN db.nodes : IsInt(n)
  /\ NodesKnown(db)
  /\ \A n \in DOMAIN db.nodes :
       Tenths(db.nodes[n][1]) = 0 /\ Tenths(db.nodes[n][3]) = 0
  /\ Cardinality(Supports(db)) = 2
  /\ db.fixed = Supports(db) \X {S("ALL")}
  /\ \A n \in DOMAIN db.nodes : \E lo, hi \in Supports(db) :
       NodeY(db, lo) <= NodeY(db, n) /\ NodeY(db, n) <= NodeY(db, hi)
  /\ \A x \in DOMAIN db.elems :
       /\ Len(db.elems[x]) = 2
       /\ db.elems[x][1] \in DOMAIN db.nodes /\ db.elems[x][2] \in DOMAIN db.nodes
       /\ \/ Adjacent(db, db.elems[x][1], db.elems[x][2])
          \/ Adjacent(db, db.elems[x][2], db.elems[x][1])
  /\ \A a, b \in DOMAIN db.nodes :
       Adjacent(db, a, b) =>
         \E x \in DOMAIN db.elems :
           {db.elems[x][1], db.elems[x][2]} = {a, b}
  /\ \A k \in DOMAIN db.loads :
       k[1] \in DOMAIN db.nodes /\ k[2] = S("FY") /\ IsInt(db.loads[k])

\* the sum of F * (y - y0) over the loads ks
RECURSIVE Moment(_, _, _)
Moment(db, ks, y0) ==
  IF ks = {} THEN 0
  ELSE LET k == CHOOSE x \in ks : TRUE
       IN  db.loads[k][2] * (NodeY(db, k[1]) - y0) + Moment(db, ks \ {k}, y0)

\* the reaction FY of the support s of a bar
Reaction(db, s) ==
  LET o == CHOOSE n \in Supports(db) : n # s
      m == Moment(db, DOMAIN db.loads, NodeY(db, o))
      l == NodeY(db, s) - NodeY(db, o)
      num == IF l < 0 THEN m ELSE 0 - m
      den == IF l < 0 THEN 0 - l ELSE l
  IN  IF num % den = 0 THEN I(num \div den) ELSE X("reaction")

\* SOLVE
SolveCmd(db, i) ==
  [db EXCEPT !.solved = i,
             !.reac = IF IsBar(db) THEN [s \in Supports(db) |-> Reaction(db, s)]
                      ELSE << >>,
             !.reply = X("solve")]

\* the sum of the reactions of the supports ns
RECURSIVE SumReac(_, _)
SumReac(db, ns) ==
  IF ns = {} THEN 0
  ELSE LET n == CHOOSE x \in ns : TRUE
       IN  db.reac[n][2] + SumReac(db, ns \ {n})

\* FSUM: the forces the elements exert on the selected nodes, summed; at a
\* support they balance the reaction
FSumCmd(db, i) ==
  LET ns == Selected(db) IN
  [db EXCEPT
     !.fsum = [at |-> i, sel |-> ns, selAt |-> db.sel.at, solve |-> db.solved,
               FY |-> IF /\ db.sel.known /\ ns # {}
                         /\ ns \subseteq DOMAIN db.reac
                         /\ \A n \in ns : IsInt(db.reac[n])
                        THEN I(0 - SumReac(db, ns))
                        ELSE X("FSUM")],
     !.reply = X("fsum")]

\* the commands that set an option of the solution
SettingOps == {"antype", "nlgeom", "autots", "nsubst", "invopt", "time"}

\* the commands the scripts pass to run() that set an option of the solution:
\* the option and its arguments
RunSets ==
  ("invopt,on" :> <<"invopt", <<S("on")>>>>) @@
  ("invopt,off" :> <<"invopt", <<S("off")>>>>)

\* run(command) passes a command that sets an option
IsRunSet(c) ==
  /\ c.op = "run"
  /\ Arg(c, 1, "command")[1] = "s"
  /\ Arg(c, 1, "command")[2] \in DOMAIN RunSets

\* the commands that display results
PlotOps == {"plesol", "plnsol"}

\* a value read from the solver by the command at position i of the script,
\* where the model does not compute it
R(i) == <<"v", i>>

\* *GET,par,entity,entnum,item1,it1num: where the parameter is read from,
\* the SOLVE that produced it, its value, and for FSUM the command that
\* summed and the nodes it summed over
GetSource(db, i, c) ==
  LET entity == Arg(c, 2, "entity")
      item1  == Arg(c, 4, "item1")
      it1num == Arg(c, 5, "it1num")
      other  == [from |-> "", at |-> i, solve |-> db.solved, value |-> R(i),
                 fsumAt |-> 0, selAt |-> 0, sel |-> {}]
  IN  IF IsStr(entity, "ELEM") /\ IsStr(item1, "ETAB")
        THEN [other EXCEPT !.from = "ETAB",
                !.solve = IF it1num \in DOMAIN db.etab THEN db.etab[it1num] ELSE 0]
      ELSE IF IsStr(entity, "PLNSOL")
        THEN [other EXCEPT !.from = "PLNSOL", !.solve = db.plot]
      ELSE IF IsStr(entity, "FSUM") /\ IsStr(item1, "ITEM") /\ IsStr(it1num, "FY")
        THEN [from |-> "FSUM", at |-> i, solve |-> db.fsum.solve,
              value |-> db.fsum.FY, fsumAt |-> db.fsum.at,
              selAt |-> db.fsum.selAt, sel |-> db.fsum.sel]
      ELSE other

\* get_value(entity, entnum, item1, it1num, ...) is get without the name of
\* a parameter
AsGet(c) == [c EXCEPT !.args = <<S("")>> \o @]

\* what the command c, the i-th call of the script, does to the database
ExecCommand(db, i, c) ==
  CASE c.op = "k" ->
         [db EXCEPT !.kps = Put(@, Arg(c, 1, "npt"), Coords(c)),
                    !.reply = Arg(c, 1, "npt")]
    [] c.op = "n" ->
         [db EXCEPT !.nodes = Put(@, Arg(c, 1, "node"), Coords(c)),
                    !.recent = IF @ = << >> THEN <<Arg(c, 1, "node")>>
                               ELSE <<@[Len(@)], Arg(c, 1, "node")>>,
                    !.reply = Arg(c, 1, "node")]
    [] c.op = "kdist" ->
         [db EXCEPT !.reply = DistReply(db.kps, Arg(c, 1, "kp1"), Arg(c, 2, "kp2"))]
    [] c.op = "ndist" ->
         [db EXCEPT !.reply = DistReply(db.nodes, Arg(c, 1, "nd1"), Arg(c, 2, "nd2"))]
    [] c.op = "fill" -> FillCmd(db, c)
    [] c.op = "ngen" -> NGenCmd(db, c)
    [] c.op = "e" -> ECmd(db, c)
    [] c.op = "egen" -> EGenCmd(db, c)
    [] c.op = "d" -> [DCmd(db, c) EXCEPT !.reply = X("d")]
    [] c.op = "f" -> [FCmd(db, c) EXCEPT !.reply = X("f")]
    [] c.op = "ddele" -> DDeleCmd(db, c)
    [] c.op = "et" ->
         [db EXCEPT !.et = Put(@, Arg(c, 1, "itype"), Arg(c, 2, "ename")),
                    !.reply = Arg(c, 1, "itype")]
    [] c.op = "sfe" -> SfeCmd(db, c)
    [] c.op = "sf" -> SfCmd(db, c)
    [] c.op = "omega" ->
         [db EXCEPT !.omega = <<Arg(c, 1, "omegx"), Arg(c, 2, "omegy"),
                                Arg(c, 3, "omegz")>>,
                    !.reply = X("omega")]
    [] c.op = "esel" -> ESelCmd(db, c)
    [] c.op = "cm" -> CmCmd(db, c)
    [] c.op = "ekill" -> EKillCmd(db, c)
    [] c.op = "ealive" -> EAliveCmd(db, c)
    [] c.op = "fdele" ->
         [db EXCEPT !.loads = [k \in (DOMAIN @) \ Deleted(DOMAIN @, c) |-> @[k]],
                    !.reply = X("fdele")]
    [] c.op = "nsel" -> [NSelCmd(db, i, c) EXCEPT !.reply = X("nsel")]
    [] c.op = "allsel" ->
         [db EXCEPT !.sel = [all |-> TRUE, known |-> TRUE, nodes |-> {}, at |-> i,
                             crit |-> << >>],
                    !.eall = TRUE,
                    !.ecrit = << >>,
                    !.reply = X("allsel")]
    [] c.op = "fsum" -> FSumCmd(db, i)
    [] IsSolve(c) -> SolveCmd(db, i)
    [] c.op = "etable" ->
         [db EXCEPT !.etab = Put(@, Arg(c, 1, "lab"), db.solved),
                    !.reply = X("etable")]
    [] c.op \in PlotOps -> [db EXCEPT !.plot = db.solved, !.reply = X(c.op)]
    [] c.op = "get" ->
         [db EXCEPT !.params = Put(@, Arg(c, 1, "par"), GetSource(db, i, c)),
                    !.reply = GetSource(db, i, c).value]
    [] c.op = "psdunit" ->
         [db EXCEPT !.psd.unit = @ \cup {Arg(c, 1, "tblno")}, !.reply = X(c.op)]
    [] c.op = "psdval" ->
         [db EXCEPT !.psd.val = @ \cup {<<Arg(c, 1, "tblno"), Arg(c, 2, "sv1")>>},
                    !.reply = X(c.op)]
    [] c.op = "coval" ->
         [db EXCEPT !.psd.co = @ \cup {<<Arg(c, 1, "tblno1"), Arg(c, 2, "tblno2"),
                                          Arg(c, 3, "sv1")>>},
                    !.reply = X(c.op)]
    [] c.op = "pfact" ->
         [db EXCEPT !.psd.pfact = Put(@, Arg(c, 1, "tblno"), db.loads),
                    !.reply = X(c.op)]
    [] c.op = "psdgraph" ->
         [db EXCEPT !.psd.graph = @ \cup {<<Arg(c, 1, "tblno1"), Arg(c, 2, "tblno2")>>},
                    !.reply = X(c.op)]
    [] c.op \in SettingOps ->
         [db EXCEPT !.opts = Put(@, c.op, c.args), !.reply = X(c.op)]
    [] IsRunSet(c) ->
         [db EXCEPT !.opts = Put(@, RunSets[Arg(c, 1, "command")[2]][1],
                                 RunSets[Arg(c, 1, "command")[2]][2]),
                    !.reply = X(c.op)]
    [] c.op = "get_value" ->
         [db EXCEPT !.reply = GetSource(db, i, AsGet(c)).value]
    [] IsClear(c) -> EmptyDb
    [] OTHER -> [db EXCEPT !.reply = X(c.op)]

\* the parameters a command defines in the session: *GET (get) its par,
\* parameters[name] = value the name, *DIM and VGET their par, VOPER its parr
Defines(c) ==
  CASE c.op = "get" -> {Arg(c, 1, "par")}
    [] c.op = "parameters.__setitem__" -> {Arg(c, 1, "name")}
    [] c.op \in {"dim", "vget"} -> {Arg(c, 1, "par")}
    [] c.op = "voper" -> {Arg(c, 1, "parr")}
    [] OTHER -> {}

\* the commands whose fields the scripts fill with the names of parameters
NamingOps == {"vfact", "vfill", "tbdata"}

\* the identifiers in the strings the scripts pass to these commands; the
\* other strings they pass (numbers, DATA, RAMP, the name of the array that
\* is filled) hold none
Identifiers ==
  ("factr" :> {"factr"}) @@ ("inv_fact" :> {"inv_fact"}) @@
  ("P_STRESS" :> {"P_STRESS"}) @@ ("(SHEAR/2)" :> {"SHEAR"}) @@
  ("ABS(P_STRESS/7527 )" :> {"P_STRESS"}) @@
  ("ABS((SHEAR/2)/3777 )" :> {"SHEAR"}) @@
  ("c10" :> {"c10"}) @@ ("c01" :> {"c01"}) @@ ("c20" :> {"c20"}) @@
  ("c11" :> {"c11"}) @@ ("dd" :> {"dd"})

\* the parameters an argument names
Mentions(a) ==
  IF a[1] = "s" /\ a[2] \in DOMAIN Identifiers
    THEN {S(x) : x \in Identifiers[a[2]]}
  ELSE IF a[1] = "k" THEN
    IF a[3][1] = "s" /\ a[3][2] \in DOMAIN Identifiers
      THEN {S(x) : x \in Identifiers[a[3][2]]} ELSE {}
  ELSE {}

\* the parameters the command c passes by name
Names(c) ==
  IF c.op \in NamingOps
    THEN UNION {Mentions(c.args[x]) : x \in DOMAIN c.args}
    ELSE {}

\* the database after the command c, the i-th call of the script: what the
\* command does, and the parameters it defines
ExecDb(db, i, c) ==
  [ExecCommand(db, i, c) EXCEPT !.defined = @ \cup Defines(c)]

EmptyServer ==
  [ running  |-> FALSE,   \* the process is up
    routine  |-> "begin", \* the processor the session is in
    solves   |-> 0,       \* SOLVE commands executed in the session
    results  |-> FALSE,   \* a solution of the present database exists
    reads    |-> 0,       \* reads of results executed
    blind    |-> 0,       \* those executed while no solution existed
    executed |-> 0,       \* commands executed
    lastPc   |-> 0,       \* position in the script of the last one
    inOrder  |-> TRUE,    \* they were executed in the order of the script
    entered  |-> 0,       \* position of the command that entered the processor
    log      |-> << >>,   \* one entry for each SOLVE: the database it solved
    fetched  |-> << >>,   \* position of a get or get_value -> what it read
    files    |-> << >>,   \* SAVE: file name -> the database and when it was saved
    resumed  |-> [at |-> 0, file |-> S(""), savedAt |-> 0],  \* the last RESUME
    sets     |-> << >>,   \* one entry for each SET: the load step it reads
    named    |-> << >>,   \* one entry for each command that names parameters
    db       |-> EmptyDb ]

\* what the get c at position i reads: the entity, its number and the item,
\* the SOLVE whose results it reads and the nodal forces at that time
Fetch(db, i, c) ==
  [ entity |-> Arg(c, 2, "entity"), entnum |-> Arg(c, 3, "entnum"),
    item1 |-> Arg(c, 4, "item1"), it1num |-> Arg(c, 5, "it1num"),
    from |-> GetSource(db, i, c).from, solve |-> GetSource(db, i, c).solve,
    value |-> GetSource(db, i, c).value, loads |-> db.loads ]

\* RESUME,fname: the database is replaced by the one saved in the file
ResumeDb(srv, c) ==
  IF Arg(c, 1, "fname") \in DOMAIN srv.files
    THEN [srv.files[Arg(c, 1, "fname")].db EXCEPT !.reply = X("resume")]
    ELSE [srv.db EXCEPT !.reply = X("resume")]

\* the solver executes the call at position i of the script
Exec(srv, i, c) ==
  LET r == Enters(c) IN
  [ srv EXCEPT
      !.routine  = IF r # "" THEN r ELSE @,
      !.solves   = IF IsSolve(c) THEN @ + 1 ELSE @,
      !.results  = IF IsClear(c) THEN FALSE ELSE IF IsSolve(c) THEN TRUE ELSE @,
      !.reads    = IF ReadsResults(c) THEN @ + 1 ELSE @,
      !.blind    = IF ReadsResults(c) /\ ~ srv.results THEN @ + 1 ELSE @,
      !.executed = @ + 1,
      !.lastPc   = i,
      !.inOrder  = @ /\ i > srv.lastPc,
      !.entered  = IF r # "" THEN i ELSE @,
      !.log      = IF IsSolve(c)
                     THEN Append(@, [at |-> i, entered |-> srv.entered,
                                     routine |-> srv.routine,
                                     db |-> srv.db])
                     ELSE @,
      !.fetched  = IF c.op = "get" THEN Put(@, i, Fetch(srv.db, i, c))
                   ELSE IF c.op = "get_value" THEN Put(@, i, Fetch(srv.db, i, AsGet(c)))
                   ELSE @,
      !.files    = IF c.op = "save"
                     THEN Put(@, Arg(c, 1, "fname"), [at |-> i, db |-> srv.db])
                     ELSE @,
      !.resumed  = IF c.op = "resume" /\ Arg(c, 1, "fname") \in DOMAIN srv.files
                     THEN [at |-> i, file |-> Arg(c, 1, "fname"),
                           savedAt |-> srv.files[Arg(c, 1, "fname")].at]
                     ELSE @,
      !.named    = IF Names(c) # {}
                     THEN Append(@, [at |-> i, names |-> Names(c),
                                     missing |-> Names(c) \ srv.db.defined])
                     ELSE @,
      !.sets     = IF c.op = "set"
                     THEN Append(@, [at |-> i, lstep |-> Arg(c, 1, "lstep"),
                                     solves |-> srv.solves,
                                     results |-> srv.results])
                     ELSE @,
      !.db       = IF c.op = "resume" THEN ResumeDb(srv, c) ELSE ExecDb(@, i, c) ]

\* the solver executes the stored calls st[lo..hi], one after the other
RECURSIVE ExecStored(_, _, _, _, _)
ExecStored(srv, sc, st, lo, hi) ==
  IF lo > hi THEN srv
  ELSE IF lo = hi THEN Exec(srv, st[lo], sc[st[lo]])
  ELSE LET m == (lo + hi) \div 2
           first == ExecStored(srv, sc, st, lo, m)
       IN  \* the test makes the first half be computed before the second
           IF first.executed > srv.executed
             THEN ExecStored(first, sc, st, m + 1, hi)
             ELSE first

\* a flush that sends the stored commands last one first
Flush_Reversed(srv, sc, st) ==
  ExecStored(srv, sc, [x \in 1..Len(st) |-> st[Len(st) + 1 - x]], 1, Len(st))

\* _flush_stored: the stored commands are sent as one input file
Flush(srv, sc, st) == ExecStored(srv, sc, st, 1, Len(st))

(***************************************************************************)
(* The client object.                                                      *)
(***************************************************************************)
NoClient ==
  [ session  |-> "none",  \* "none", "open" after launch_mapdl, "exited"
    launches |-> 0,       \* calls of launch_mapdl
    exits    |-> 0,       \* calls of exit
    stray    |-> 0,       \* calls made without an open session
    issued   |-> 0,       \* commands issued on the session
    storing  |-> FALSE,   \* inside "with mapdl.non_interactive"
    stored   |-> << >>,   \* positions of the calls stored there
    flushed  |-> << >>,   \* positions of the calls of the last block sent
    printed  |-> {},      \* positions of the print calls made
    env      |-> << >>,   \* the variables that hold values of calls
    out      |-> << >> ]  \* the table of results printed

IsOutput(c) == c.op = "print"
IsLaunch(c) == c.op = "launch_mapdl"
IsExit(c) == c.op = "exit"
IsEnter(c) == c.op = "non_interactive.__enter__"
IsLeave(c) == c.op = "non_interactive.__exit__"

\* a call that is sent to the solver as a command
IsCommand(c) ==
  ~ (IsOutput(c) \/ IsLaunch(c) \/ IsExit(c) \/ IsEnter(c) \/ IsLeave(c))

(***************************************************************************)
(* VM8: the class Create and the variables of the script.                  *)
(***************************************************************************)
\* a Python value: its type and its items
Value(type, items) == [type |-> type, items |-> items]

\* the values a caller may pass: the four lists of the script and values of
\* other shapes
Heap ==
  << Value("list", <<I(100), I(0), I(30)>>),            \* kp1
     Value("list", <<I(-200), I(25), I(80)>>),          \* kp2
     Value("list", <<F("1.5"), F("2.5"), F("3.5")>>),   \* node1
     Value("list", <<F("-3.7"), F("4.6"), I(-3)>>),     \* node2
     Value("tuple", <<I(100), I(0), I(30)>>),
     Value("ndarray", <<F("1.5"), F("2.5"), F("3.5")>>),
     Value("list", <<I(100), I(0)>>),
     Value("list", <<I(100), I(0), I(30), I(1)>>),
     Value("int", <<I(100)>>) >>

\* the names the script binds instances of Create to
Instances == {"kp", "nodes"}

\* a name that is not bound to an instance (0 is no reference)
Unbound == [p1 |-> 0, p2 |-> 0]

\* no exception
NoExc == [type |-> "", msg |-> "", attr |-> ""]

ValueError(msg, attr) == [type |-> "ValueError", msg |-> msg, attr |-> attr]

TypeError(attr) ==
  [type |-> "TypeError", msg |-> "object has no len()", attr |-> attr]

\* isinstance(v, list)
IsList(v) == v.type = "list"

\* the types that have a length
Sized == {"list", "tuple", "ndarray"}

\* a setter of p1 that checks the quantity of items before the data type
p1_LengthFirst(v) ==
  IF v.type \notin Sized THEN TypeError("p1")
  ELSE IF Len(v.items) # 3
    THEN ValueError("The coordinates should have three items in the list as [X, Y, Z]", "p1")
  ELSE IF ~ IsList(v)
    THEN ValueError("The coordinates should be implemented by the list!", "p1")
  ELSE NoExc

\* the setter of p1 on the value v: the exception raised, NoExc if none
p1(v) ==
  IF ~ IsList(v)
    THEN ValueError("The coordinates should be implemented by the list!", "p1")
  ELSE IF v.type \notin Sized THEN TypeError("p1")
  ELSE IF Len(v.items) # 3
    THEN ValueError("The coordinates should have three items in the list as [X, Y, Z]", "p1")
  ELSE NoExc

\* the setter of p2
p2(v) ==
  IF ~ IsList(v)
    THEN ValueError("The coordinates should be implemented by the list!", "p2")
  ELSE IF v.type \notin Sized THEN TypeError("p2")
  ELSE IF Len(v.items) # 3
    THEN ValueError("The coordinates should have three items in the list as [X, Y, Z]", "p2")
  ELSE NoExc

\* Create(a, b), a and b references into the heap h: self.p1 = a, then
\* self.p2 = b; the instance exists only if neither raises
__init__(h, a, b) ==
  IF p1(h[a]) # NoExc THEN [self |-> Unbound, exc |-> p1(h[a])]
  ELSE IF p2(h[b]) # NoExc THEN [self |-> Unbound, exc |-> p2(h[b])]
  ELSE [self |-> [p1 |-> a, p2 |-> b], exc |-> NoExc]

\* the value of an argument where the local variables are env
Val(a, env) == IF a[1] = "x" /\ a[2] \in DOMAIN env THEN env[a[2]] ELSE a

\* the call c with its arguments evaluated
Bind(c, env) ==
  [c EXCEPT !.args =
     [i \in DOMAIN c.args |->
        IF c.args[i][1] = "k"
          THEN K(c.args[i][2], Val(c.args[i][3], env))
          ELSE Val(c.args[i], env)]]

\* the local variables after the targets of c received the reply
Assign(env, c, reply) ==
  IF c.ret = << >> THEN env
  ELSE IF c.unpack
    THEN [x \in (DOMAIN env) \cup {c.ret[i] : i \in DOMAIN c.ret} |->
            IF \E i \in DOMAIN c.ret : c.ret[i] = x
              THEN reply[2][CHOOSE i \in DOMAIN c.ret : c.ret[i] = x]
              ELSE env[x]]
  ELSE Put(env, c.ret[1], reply)

\* the database and the local variables after the calls cs[i], cs[i+1], ...
RECURSIVE RunCalls(_, _, _, _)
RunCalls(db, env, cs, i) ==
  IF i > Len(cs) THEN [db |-> db, env |-> env]
  ELSE LET c == Bind(cs[i], env)
           d == ExecDb(db, 0, c)
       IN  RunCalls(d, Assign(env, cs[i], d.reply), cs, i + 1)

\* the calls of the method whose body is the lines lo..hi
MethodCalls(lo, hi) == SelectSeq(VM8, LAMBDA c : c.line \in lo..hi)

\* attributes where p2 reads the list of p1
SelfEnv_OnePoint(h, self) ==
  [x \in {"self.p1[0]", "self.p1[1]", "self.p1[2]",
          "self.p2[0]", "self.p2[1]", "self.p2[2]"} |->
     CASE x = "self.p1[0]" -> h[self.p1].items[1]
       [] x = "self.p1[1]" -> h[self.p1].items[2]
       [] x = "self.p1[2]" -> h[self.p1].items[3]
       [] x = "self.p2[0]" -> h[self.p1].items[1]
       [] x = "self.p2[1]" -> h[self.p1].items[2]
       [] x = "self.p2[2]" -> h[self.p1].items[3]]

\* the attributes a method reads: self.p1[0] ... self.p2[2]
SelfEnv(h, self) ==
  [x \in {"self.p1[0]", "self.p1[1]", "self.p1[2]",
          "self.p2[0]", "self.p2[1]", "self.p2[2]"} |->
     CASE x = "self.p1[0]" -> h[self.p1].items[1]
       [] x = "self.p1[1]" -> h[self.p1].items[2]
       [] x = "self.p1[2]" -> h[self.p1].items[3]
       [] x = "self.p2[0]" -> h[self.p2].items[1]
       [] x = "self.p2[1]" -> h[self.p2].items[2]
       [] x = "self.p2[2]" -> h[self.p2].items[3]]

\* self.kp_distances(): the database afterwards and the value returned
kp_distances(h, db, self) ==
  LET r == RunCalls(db, SelfEnv(h, self), MethodCalls(113, 130), 1)
  IN  [db |-> r.db, ret |-> r.env["dist_kp"]]

\* self.node_distances()
node_distances(h, db, self) ==
  LET r == RunCalls(db, SelfEnv(h, self), MethodCalls(132, 143), 1)
  IN  [db |-> r.db, ret |-> r.env["dist_node"]]

(***************************************************************************)
(* VM8: the table of results.                                              *)
(***************************************************************************)
\* a number with two decimals, in hundredths
Dec2(n) == <<"d", n>>

\* floor(a / b * 10^k) for a >= 0, b > 0, by long division: <<quotient,
\* remainder>>
RECURSIVE Quot(_, _, _)
Quot(a, b, k) ==
  IF k = 0 THEN <<a \div b, a % b>>
  ELSE LET qr == Quot(a, b, k - 1)
       IN  <<10 * qr[1] + (10 * qr[2]) \div b, (10 * qr[2]) % b>>

\* np.divide on two numbers given in units of 10^-5
divide(a, b) == Len5(Quot(a[2], b[2], 5)[1])

\* a rounding that drops the digits after the second decimal
round2_Floor(a) == Dec2(a[2] \div 1000)

\* round(2) of a number given in units of 10^-5
round2(a) == Dec2((a[2] + 500) \div 1000)

row_names == <<"N1 - N2 distance (LEN2)", "K3 - K4 distance (LEN1)">>

target_res == <<Len5(858490), Len5(30516000)>>

\* pd.DataFrame(main_columns, index=row_names).round(2)
DataFrame(node_dist, kp_dist) ==
  LET simulation_res == <<node_dist, kp_dist>>
  IN  [r \in {row_names[i] : i \in 1..2} |->
         LET i == CHOOSE j \in 1..2 : row_names[j] = r
         IN  [col \in {"Target", "Mechanical APDL", "Ratio"} |->
                CASE col = "Target" -> round2(target_res[i])
                  [] col = "Mechanical APDL" -> round2(simulation_res[i])
                  [] col = "Ratio" ->
                       round2(divide(simulation_res[i], target_res[i]))]]

\* a statement of the script: what it is, the instance it is about and the
\* references it passes
Stmt(op, o, args) == [op |-> op, obj |-> o, args |-> args]

\* the lists of the script: kp1, kp2 (lines 188-189), node1, node2 (207-208),
\* as references into the heap
ScriptLists == [kp1 |-> 1, kp2 |-> 2, node1 |-> 3, node2 |-> 4]

PyInit ==
  [ heap      |-> Heap,
    objs      |-> [o \in Instances |-> Unbound],
    exc       |-> NoExc,        \* the exception the last statement raised
    call      |-> Stmt("", "", << >>),   \* the last statement
    vars      |-> ScriptLists,  \* the lists kp1, kp2, node1, node2
    line      |-> 190,          \* the next statement of lines 190-258
    kp_dist   |-> X("kp_dist"),
    node_dist |-> X("node_dist"),
    df2       |-> << >> ]

(***************************************************************************)
(* VM1: the table of results, lines 155-163.                               *)
(***************************************************************************)
\* abs(a)
Abs(a) ==
  IF IsInt(a) THEN I(IF a[2] < 0 THEN 0 - a[2] ELSE a[2]) ELSE X("abs")

\* a / n for a >= 0, in units of 10^-5
Over(a, n) == IF IsInt(a) THEN Len5(Quot(a[2], n, 5)[1]) ELSE X("ratio")

Row(name, target, value, ratio) ==
  [name |-> name, target |-> target, value |-> value, ratio |-> ratio]

\* a table that pairs each reaction with the target of the other
VM1_results_Swapped(env) ==
  << Row("R1, lb", F("900.0"), Abs(env["reaction_2"]), Over(Abs(env["reaction_2"]), 900)),
     Row("R2, lb", F("600.0"), Abs(env["reaction_1"]), Over(Abs(env["reaction_1"]), 600)) >>

\* results = f"""... R1, lb 900.0 {abs(reaction_1)} {abs(reaction_1) / 900} ..."""
VM1_results(env) ==
  << Row("R1, lb", F("900.0"), Abs(env["reaction_1"]), Over(Abs(env["reaction_1"]), 900)),
     Row("R2, lb", F("600.0"), Abs(env["reaction_2"]), Over(Abs(env["reaction_2"]), 600)) >>

\* np.abs(a) / np.abs(b) of values the model does not compute
Ratio(a, b) == <<"q", a, b>>

\* a table with its heading
Table(title, rows) == [title |-> title, rows |-> rows]

\* target_res and target_res_strss of VM21, lines 301-302
VM21_target_res == <<F("-0.19945"), F("0.0032352"), F("-4580.1")>>

VM21_target_res_strss == <<F("-0.38241"), F("0.0061185"), F("-8962.7")>>

\* the three rows of a table of VM21
VM21_rows(target, sim) ==
  [r \in 1..3 |->
     Row(<<"Z_max, in", "Slope, rad", "M_max , in-lb">>[r], target[r], sim[r],
         Ratio(target[r], sim[r]))]

\* tables where each heading is followed by the values of the other case
VM21_table_Swapped(line, env) ==
  LET sim_res == <<env["uz_mx_c1"], env["slope_c1"], env["m_mx_c1"]>>
      sim_res_strss == <<env["uz_mx_c2"], env["slope_c2"], env["m_mx_c2"]>>
  IN  IF line = 323
        THEN Table("F neq 0 (stiffened)", VM21_rows(VM21_target_res, sim_res_strss))
        ELSE Table("F = 0 (unstiffened)", VM21_rows(VM21_target_res_strss, sim_res))

\* print(title); print(pd.DataFrame(np.transpose(data), row_headers,
\* col_headers)) of lines 300-341: the table printed at the line
VM21_table(line, env) ==
  LET sim_res == <<env["uz_mx_c1"], env["slope_c1"], env["m_mx_c1"]>>
      sim_res_strss == <<env["uz_mx_c2"], env["slope_c2"], env["m_mx_c2"]>>
  IN  IF line = 323
        THEN Table("F neq 0 (stiffened)", VM21_rows(VM21_target_res, sim_res))
        ELSE Table("F = 0 (unstiffened)", VM21_rows(VM21_target_res_strss, sim_res_strss))

\* what the print call c of the script sc shows, where it is a table of
\* results that is modelled
Shown(sc, c, env, out) ==
  IF sc = "VM1" /\ c.line = 163 THEN VM1_results(env)
  ELSE IF sc = "VM21" /\ c.line \in {323, 341}
    THEN Append(out, VM21_table(c.line, env))
  ELSE out

Init ==
  /\ script \in ScriptNames
  /\ pc = 1
  /\ status = "running"
  /\ client = NoClient
  /\ server = EmptyServer
  /\ py = PyInit

\* mapdl = launch_mapdl(...)
Launch ==
  /\ AtCall /\ IsLaunch(Cmd)
  /\ client' = [client EXCEPT !.session = "open", !.launches = @ + 1]
  /\ server' = [EmptyServer EXCEPT !.running = TRUE]
  /\ pc' = pc + 1
  /\ UNCHANGED <<py, script, status>>

\* mapdl.<command>(...) outside a non_interactive block: sent and executed
\* before the call returns
Command ==
  /\ AtCall /\ IsCommand(Cmd)
  /\ client.session = "open" /\ ~ client.storing
  /\ client' = [client EXCEPT !.issued = @ + 1,
                              !.env = Assign(@, Cmd, Exec(server, pc, Cmd).db.reply)]
  /\ server' = Exec(server, pc, Cmd)
  /\ pc' = pc + 1
  /\ UNCHANGED <<py, script, status>>

\* with mapdl.non_interactive:
EnterBlock ==
  /\ AtCall /\ IsEnter(Cmd)
  /\ client.session = "open"
  /\ client' = [client EXCEPT !.storing = TRUE]
  /\ pc' = pc + 1
  /\ UNCHANGED <<py, script, status, server>>

\* mapdl.<command>(...) inside the block: stored, not sent
Store ==
  /\ AtCall /\ IsCommand(Cmd)
  /\ client.session = "open" /\ client.storing
  /\ client' = [client EXCEPT !.issued = @ + 1, !.stored = Append(@, pc),
                              !.env = Assign(@, Cmd, X("None"))]
  /\ pc' = pc + 1
  /\ UNCHANGED <<py, script, status, server>>

\* the end of the block: the stored commands are sent
LeaveBlock ==
  /\ AtCall /\ IsLeave(Cmd)
  /\ client.session = "open"
  /\ client' = [client EXCEPT !.storing = FALSE, !.stored = << >>,
                              !.flushed = client.stored]
  /\ server' = Flush(server, Scripts[script], client.stored)
  /\ pc' = pc + 1
  /\ UNCHANGED <<py, script, status>>

\* print(...)
Output ==
  /\ AtCall /\ IsOutput(Cmd)
  /\ client' = [client EXCEPT !.printed = @ \cup {pc},
                              !.out = Shown(script, Cmd, client.env, @)]
  /\ pc' = pc + 1
  /\ UNCHANGED <<py, script, status, server>>

\* mapdl.exit()
Exit ==
  /\ AtCall /\ IsExit(Cmd)
  /\ client.session = "open"
  /\ client' = [client EXCEPT !.session = "exited", !.exits = @ + 1]
  /\ server' = [server EXCEPT !.running = FALSE]
  /\ pc' = pc + 1
  /\ UNCHANGED <<py, script, status>>

\* a call on a client that has no open session: the client raises
StrayCall ==
  /\ AtCall /\ ~ IsOutput(Cmd) /\ ~ IsLaunch(Cmd)
  /\ client.session # "open"
  /\ client' = [client EXCEPT !.stray = @ + 1,
                              !.exits = IF IsExit(Cmd) THEN @ + 1 ELSE @]
  /\ status' = "failed"
  /\ UNCHANGED <<py, script, pc, server>>

\* a remote call raises (solver error, lost connection); no script has a
\* try statement, so the exception ends the script
Raise ==
  /\ AtCall /\ ~ IsOutput(Cmd)
  /\ IsLaunch(Cmd) \/ client.session = "open"
  /\ client.storing => IsLeave(Cmd)
  /\ status' = "failed"
  /\ server' = IF IsLeave(Cmd) THEN Flush(server, Scripts[script], client.stored)
               ELSE server
  /\ UNCHANGED <<py, script, pc, client>>

\* the interpreter runs off the end of the script
End ==
  /\ status = "running" /\ pc > Len(Scripts[script])
  /\ status' = "done"
  /\ UNCHANGED <<py, script, pc, client, server>>

Next ==
  \/ Launch \/ Command \/ EnterBlock \/ Store \/ LeaveBlock
  \/ Output \/ Exit \/ StrayCall \/ Raise \/ End

Spec == Init /\ [][Next]_vars

(***************************************************************************)
(* The statements of VM8 that use Create, as functions of the variables    *)
(* of the script.                                                          *)
(***************************************************************************)
\* o = Create(a, b): the name is bound only if the constructor returns
Construct(p, o, a, b) ==
  LET r == __init__(p.heap, a, b) IN
  [p EXCEPT !.objs[o] = IF r.exc = NoExc THEN r.self ELSE @,
            !.exc = r.exc,
            !.call = Stmt("Create", o, <<a, b>>)]

\* o.p1 = a: the attribute is set only if the setter returns
AssignP1(p, o, a) ==
  [p EXCEPT !.objs[o].p1 = IF p1(p.heap[a]) = NoExc THEN a ELSE @,
            !.exc = p1(p.heap[a]),
            !.call = Stmt("p1", o, <<a>>)]

\* o.p2 = a
AssignP2(p, o, a) ==
  [p EXCEPT !.objs[o].p2 = IF p2(p.heap[a]) = NoExc THEN a ELSE @,
            !.exc = p2(p.heap[a]),
            !.call = Stmt("p2", o, <<a>>)]

\* kp_dist = o.kp_distances()
CallKp(p, db, o) ==
  LET r == kp_distances(p.heap, db, p.objs[o]) IN
  [db |-> r.db,
   py |-> [p EXCEPT !.kp_dist = r.ret, !.exc = NoExc,
                    !.call = Stmt("kp_distances", o, << >>)]]

\* node_dist = o.node_distances()
CallNode(p, db, o) ==
  LET r == node_distances(p.heap, db, p.objs[o]) IN
  [db |-> r.db,
   py |-> [p EXCEPT !.node_dist = r.ret, !.exc = NoExc,
                    !.call = Stmt("node_distances", o, << >>)]]

\* df2 = pd.DataFrame(main_columns, index=row_names).round(2)
BuildTable(p) ==
  [p EXCEPT !.df2 = DataFrame(p.node_dist, p.kp_dist), !.exc = NoExc,
            !.call = Stmt("DataFrame", "", << >>)]

(***************************************************************************)
(* Create as a container: after the script has entered PREP7 (lines 86-96) *)
(* the caller constructs instances and assigns to p1 and p2 in any order,  *)
(* with any of the values of the heap.                                     *)
(***************************************************************************)
InitCreate ==
  /\ script = "VM8"
  /\ pc = 5
  /\ status = "running"
  /\ client = [NoClient EXCEPT !.session = "open", !.launches = 1, !.issued = 3]
  /\ server = Flush([EmptyServer EXCEPT !.running = TRUE], VM8, <<2, 3, 4>>)
  /\ py = PyInit

InCreate == script = "VM8" /\ status = "running" /\ client.session = "open"

Bound(o) == py.objs[o] # Unbound

\* o = Create(a, b)
NewCreate ==
  /\ InCreate
  /\ \E o \in Instances, a, b \in DOMAIN py.heap : py' = Construct(py, o, a, b)
  /\ UNCHANGED <<script, pc, status, client, server>>

\* o.p1 = a
SetP1 ==
  /\ InCreate
  /\ \E o \in Instances, a \in DOMAIN py.heap :
       Bound(o) /\ py' = AssignP1(py, o, a)
  /\ UNCHANGED <<script, pc, status, client, server>>

\* o.p2 = a
SetP2 ==
  /\ InCreate
  /\ \E o \in Instances, a \in DOMAIN py.heap :
       Bound(o) /\ py' = AssignP2(py, o, a)
  /\ UNCHANGED <<script, pc, status, client, server>>

NextCreate == NewCreate \/ SetP1 \/ SetP2

SpecCreate == InitCreate /\ [][NextCreate]_vars

(***************************************************************************)
(* Create reused: instances are constructed from the first NLists lists of *)
(* the heap, their points are changed and the two methods are called, in   *)
(* any order.                                                              *)
(***************************************************************************)
NLists == 2

Lists == 1..NLists

Rebuild ==
  /\ InCreate
  /\ \E o \in Instances, a, b \in Lists : py' = Construct(py, o, a, b)
  /\ UNCHANGED <<script, pc, status, client, server>>

MoveP1 ==
  /\ InCreate
  /\ \E o \in Instances, a \in Lists : Bound(o) /\ py' = AssignP1(py, o, a)
  /\ UNCHANGED <<script, pc, status, client, server>>

MoveP2 ==
  /\ InCreate
  /\ \E o \in Instances, a \in Lists : Bound(o) /\ py' = AssignP2(py, o, a)
  /\ UNCHANGED <<script, pc, status, client, server>>

KpDistances ==
  /\ InCreate
  /\ \E o \in Instances :
       /\ Bound(o)
       /\ server' = [server EXCEPT !.db = CallKp(py, server.db, o).db]
       /\ py' = CallKp(py, server.db, o).py
  /\ UNCHANGED <<script, pc, status, client>>

NodeDistances ==
  /\ InCreate
  /\ \E o \in Instances :
       /\ Bound(o)
       /\ server' = [server EXCEPT !.db = CallNode(py, server.db, o).db]
       /\ py' = CallNode(py, server.db, o).py
  /\ UNCHANGED <<script, pc, status, client>>

NextReuse == Rebuild \/ MoveP1 \/ MoveP2 \/ KpDistances \/ NodeDistances

SpecReuse == InitCreate /\ [][NextReuse]_vars

(***************************************************************************)
(* Create and the lists of the caller: the setters store the reference     *)
(* they are given (self._p1 = new_value), so the caller who keeps the list *)
(* can change it in place after it was validated, and call the methods.    *)
(***************************************************************************)
\* the most items by which the lists of the caller differ from the lists as
\* the script wrote them
MaxEdits == 1

\* the items that were removed from or added to the list a: those after the
\* part it still has in common with the list as the script wrote it
Edited(h, a) ==
  LET was == Heap[a].items
      now == h[a].items
      same == {k \in 0..Len(was) :
                 k <= Len(now) /\ SubSeq(now, 1, k) = SubSeq(was, 1, k)}
      kept == CHOOSE k \in same : \A j \in same : j <= k
  IN  (Len(was) - kept) + (Len(now) - kept)

RECURSIVE Edits(_, _)
Edits(h, n) == IF n = 0 THEN 0 ELSE Edited(h, n) + Edits(h, n - 1)

\* the item the caller appends
Extra == I(0)

IndexError(attr) ==
  [type |-> "IndexError", msg |-> "list index out of range", attr |-> attr]

\* lst.append(x): the list a has one more item
append(h, a, x) == [h EXCEPT ![a].items = Append(@, x)]

\* lst.pop(): the list a loses its last item
pop(h, a) == [h EXCEPT ![a].items = SubSeq(@, 1, Len(@) - 1)]

\* the attributes of p1 alone: self.p1[0], self.p1[1], self.p1[2]
SelfP1Env(h, self) ==
  [x \in {"self.p1[0]", "self.p1[1]", "self.p1[2]"} |->
     CASE x = "self.p1[0]" -> h[self.p1].items[1]
       [] x = "self.p1[1]" -> h[self.p1].items[2]
       [] x = "self.p1[2]" -> h[self.p1].items[3]]

\* a method whose body is the lines lo..hi runs on the lists as they are:
\* the arguments of the first command read self.p1[0..2], those of the
\* second self.p2[0..2]; reading an item that is not there raises IndexError
\* and ends the method, after the commands that were sent before
RunMethod(p, db, o, name, lo, hi, ret) ==
  LET h == p.heap
      self == p.objs[o]
      cs == MethodCalls(lo, hi)
      st == Stmt(name, o, << >>)
  IN  IF Len(h[self.p1].items) < 3
        THEN [db |-> db, py |-> [p EXCEPT !.exc = IndexError("p1"), !.call = st]]
      ELSE IF Len(h[self.p2].items) < 3
        THEN [db |-> ExecDb(db, 0, Bind(cs[1], SelfP1Env(h, self))),
              py |-> [p EXCEPT !.exc = IndexError("p2"), !.call = st]]
      ELSE LET r == RunCalls(db, SelfEnv(h, self), cs, 1)
           IN  [db |-> r.db,
                py |-> [p EXCEPT ![IF name = "kp_distances" THEN "kp_dist"
                                   ELSE "node_dist"] = r.env[ret],
                                 !.exc = NoExc, !.call = st]]

\* o = Create(a, b) with two lists of the caller
Keep ==
  /\ InCreate
  /\ \E o \in Instances, a, b \in Lists : py' = Construct(py, o, a, b)
  /\ UNCHANGED <<script, pc, status, client, server>>

\* lst.append(0) on a list of the caller
Grow ==
  /\ InCreate
  /\ \E a \in Lists :
       /\ Edits(append(py.heap, a, Extra), NLists) <= MaxEdits
       /\ py' = [py EXCEPT !.heap = append(@, a, Extra), !.exc = NoExc,
                           !.call = Stmt("append", "", <<a>>)]
  /\ UNCHANGED <<script, pc, status, client, server>>

\* lst.pop() on a list of the caller
Shrink ==
  /\ InCreate
  /\ \E a \in Lists :
       /\ Len(py.heap[a].items) > 0
       /\ Edits(pop(py.heap, a), NLists) <= MaxEdits
       /\ py' = [py EXCEPT !.heap = pop(@, a), !.exc = NoExc,
                           !.call = Stmt("pop", "", <<a>>)]
  /\ UNCHANGED <<script, pc, status, client, server>>

\* kp_dist = kp.kp_distances()
RunKp ==
  /\ InCreate
  /\ Bound("kp")
  /\ LET r == RunMethod(py, server.db, "kp", "kp_distances", 113, 130, "dist_kp")
     IN  server' = [server EXCEPT !.db = r.db] /\ py' = r.py
  /\ UNCHANGED <<script, pc, status, client>>

\* node_dist = nodes.node_distances()
RunNode ==
  /\ InCreate
  /\ Bound("nodes")
  /\ LET r == RunMethod(py, server.db, "nodes", "node_distances", 132, 143, "dist_node")
     IN  server' = [server EXCEPT !.db = r.db] /\ py' = r.py
  /\ UNCHANGED <<script, pc, status, client>>

NextInPlace == Keep \/ Grow \/ Shrink \/ RunKp \/ RunNode

SpecInPlace == InitCreate /\ [][NextInPlace]_vars

(***************************************************************************)
(* VM8 as written, lines 188-258, for any choice of the four lists.        *)
(***************************************************************************)
InitVM8 ==
  /\ script = "VM8"
  /\ pc = 5
  /\ status = "running"
  /\ client = [NoClient EXCEPT !.session = "open", !.launches = 1, !.issued = 3]
  /\ server = Flush([EmptyServer EXCEPT !.running = TRUE], VM8, <<2, 3, 4>>)
  /\ \E v \in [DOMAIN ScriptLists -> 1..4] : py = [PyInit EXCEPT !.vars = v]

AtLine(n) == InCreate /\ py.line = n

\* kp = Create(kp1, kp2)
Line190 ==
  /\ AtLine(190)
  /\ py' = [Construct(py, "kp", py.vars.kp1, py.vars.kp2) EXCEPT !.line = 191]
  /\ UNCHANGED <<script, pc, status, client, server>>

\* kp_dist = kp.kp_distances()
Line191 ==
  /\ AtLine(191)
  /\ server' = [server EXCEPT !.db = CallKp(py, server.db, "kp").db]
  /\ py' = [CallKp(py, server.db, "kp").py EXCEPT !.line = 209]
  /\ UNCHANGED <<script, pc, status, client>>

\* nodes = Create(node1, node2)
Line209 ==
  /\ AtLine(209)
  /\ py' = [Construct(py, "nodes", py.vars.node1, py.vars.node2) EXCEPT !.line = 210]
  /\ UNCHANGED <<script, pc, status, client, server>>

\* node_dist = nodes.node_distances()
Line210 ==
  /\ AtLine(210)
  /\ server' = [server EXCEPT !.db = CallNode(py, server.db, "nodes").db]
  /\ py' = [CallNode(py, server.db, "nodes").py EXCEPT !.line = 251]
  /\ UNCHANGED <<script, pc, status, client>>

\* the table of results, line 251
Line251 ==
  /\ AtLine(251)
  /\ py' = [BuildTable(py) EXCEPT !.line = 258]
  /\ UNCHANGED <<script, pc, status, client, server>>

\* mapdl.exit(), the last line
Line258 ==
  /\ AtLine(258)
  /\ client' = [client EXCEPT !.session = "exited", !.exits = @ + 1]
  /\ server' = [server EXCEPT !.running = FALSE]
  /\ status' = "done"
  /\ UNCHANGED <<script, pc, py>>

NextVM8 == Line190 \/ Line191 \/ Line209 \/ Line210 \/ Line251 \/ Line258

SpecVM8 == InitVM8 /\ [][NextVM8]_vars

(***************************************************************************)
(* Session lifecycle.                                                      *)
(***************************************************************************)
\* C1: once mapdl.exit() has been called no further call is made on the
\* client, and exit is called at most once.
C1_NothingAfterExit ==
  /\ client.exits <= 1
  /\ client.session = "exited" => client.stray = 0

\* C2: solve comes before fetch: every read of results (SET, *GET of a result
\* item) is executed when a SOLVE of the session has produced a solution of
\* the database, and a script that reads results has issued a SOLVE.
C2_SolveBeforeFetch ==
  /\ server.blind = 0
  /\ status = "done" /\ server.reads > 0 => server.solves >= 1

\* C3: when a call raises, the script stops and mapdl.exit() has not been
\* called: the session is left open.
C3_FailureLeavesSessionOpen ==
  status = "failed" => client.exits = 0 /\ client.session # "exited"

\* C4: a script that launched a session has called mapdl.exit() on it when
\* it ends; launch_mapdl() is called once, before any command.
C4_ExitReached ==
  /\ client.launches <= 1
  /\ client.issued > 0 => client.launches = 1
  /\ status = "done" /\ client.launches = 1 => client.exits >= 1

(***************************************************************************)
(* Commands stored by non_interactive.                                     *)
(***************************************************************************)
\* the command the solver executed last
LastCmd == Scripts[script][server.lastPc]

\* the positions of the calls of the block that was sent last
LastBlock == {client.flushed[x] : x \in DOMAIN client.flushed}

\* C6: the solver executes the commands in the order the script issues
\* them, and outside a non_interactive block every command issued has been
\* executed, so that all commands of a block are executed before any command
\* that follows it; in vm12.py the GETs of P_STRESS and SHEAR read an element
\* table or a plot filled from the SOLVE of the block before them, and in
\* VM298 PSDRES, PSDCOM and the SOLVE after the loop are executed when all
\* commands of the loop have been.
C6_BlockBeforeWhatFollows ==
  /\ server.inOrder
  /\ ~ client.storing => server.executed = client.issued
  /\ script = "DocVM12" /\ server.lastPc > 0 /\ LastCmd.op = "get"
       /\ LastCmd.args[1] \in {S("P_STRESS"), S("SHEAR")}
     => LET src == server.db.params[LastCmd.args[1]].solve
        IN  src \in LastBlock /\ Scripts[script][src].op = "solve"
  /\ script = "VM298" /\ server.lastPc > 0 /\ LastCmd.line \in 356..364
     => /\ client.flushed # << >>
        /\ server.executed >= Len(client.flushed)
        /\ \A x \in LastBlock : x < server.lastPc

\* vm12.py: SHEAR has been read after the second block, from the plot of
\* the results of the SOLVE stored in that block
C6_ShearRead ==
  /\ script = "DocVM12" /\ server.lastPc > 0 /\ LastCmd.line = 91
  /\ S("SHEAR") \in DOMAIN server.db.params
  /\ server.db.params[S("SHEAR")].solve \in LastBlock

(***************************************************************************)
(* VM1.                                                                    *)
(***************************************************************************)
\* the nodes of the database whose y coordinate is y (in tenths)
NodesAtY(y) ==
  {n \in DOMAIN server.db.nodes : NodeY(server.db, n) = y}

\* the parameter par was read from an FSUM that is the command before the
\* GET, over the nodes at y that the NSEL before the FSUM selected, of the
\* results of the SOLVE
ReadAtSupport(par, y) ==
  LET p == server.db.params[par] IN
  /\ p.from = "FSUM"
  /\ p.fsumAt = p.at - 1
  /\ p.selAt = p.fsumAt - 1
  /\ Scripts[script][p.selAt].op = "nsel"
  /\ p.sel = NodesAtY(y) /\ p.sel # {}
  /\ p.solve = server.db.solved /\ p.solve > 0

\* the row pairs the target with the absolute value of the parameter, and
\* the ratio is that value over the target
Pairs(row, target, par) ==
  /\ row.target = F(target.text)
  /\ row.value = Abs(server.db.params[par].value)
  /\ row.ratio[1] = "r" /\ row.ratio[2] * target.n = row.value[2] * 100000

\* C7: in VM1 REAC_1 is read by the GET that follows the FSUM over the nodes
\* at y = 10 and REAC_2 by the GET that follows the FSUM over the nodes at
\* y = 0, each FSUM following the NSEL of its support; the table printed
\* pairs |REAC_1| with 900 and |REAC_2| with 600, each ratio being the
\* value over the target.
C7_ReactionsPaired ==
  script = "VM1" =>
    /\ S("REAC_1") \in DOMAIN server.db.params => ReadAtSupport(S("REAC_1"), 100)
    /\ S("REAC_2") \in DOMAIN server.db.params => ReadAtSupport(S("REAC_2"), 0)
    /\ client.out # << >> =>
         /\ Len(client.out) = 2
         /\ client.out[1].name = "R1, lb" /\ client.out[2].name = "R2, lb"
         /\ Pairs(client.out[1], [text |-> "900.0", n |-> 900], S("REAC_1"))
         /\ Pairs(client.out[2], [text |-> "600.0", n |-> 600], S("REAC_2"))
    /\ status = "done" => client.out # << >>

\* VM1 has printed its table
C7_TablePrinted ==
  /\ script = "VM1" /\ status = "done"
  /\ client.out # << >>
  /\ {S("REAC_1"), S("REAC_2")} \subseteq DOMAIN server.db.params

\* C8: in VM1 the model solved has its nodes at y = 0, 4, 7, 10, nodes 1 and
\* 4 and no others constrained, FY = -500 at y = 4 and FY = -1000 at y = 7;
\* its reactions add up to the load of 1500, the one at y = 10 is
\* (500 * 4 + 1000 * 7) / 10 = 900 and the one at y = 0 is 600.
C8_StaticReactions ==
  script = "VM1" /\ server.db.solved > 0 =>
    LET db == server.db IN
    /\ DOMAIN db.nodes = {I(1), I(2), I(3), I(4)}
    /\ NodeY(db, I(1)) = 0 /\ NodeY(db, I(2)) = 40
    /\ NodeY(db, I(3)) = 70 /\ NodeY(db, I(4)) = 100
    /\ db.fixed = {I(1), I(4)} \X {S("ALL")}
    /\ DOMAIN db.loads = {<<I(2), S("FY")>>, <<I(3), S("FY")>>}
    /\ db.loads[<<I(2), S("FY")>>] = I(-500)
    /\ db.loads[<<I(3), S("FY")>>] = I(-1000)
    /\ DOMAIN db.reac = {I(1), I(4)}
    /\ db.reac[I(4)] = I(900) /\ db.reac[I(1)] = I(600)
    /\ db.reac[I(4)][2] + db.reac[I(1)][2] = 1500
    /\ db.reac[I(4)][2] * 10 = 500 * 4 + 1000 * 7

\* VM1 has been solved and the reaction at y = 10 read
C8_Solved ==
  /\ script = "VM1" /\ server.db.solved > 0
  /\ S("REAC_1") \in DOMAIN server.db.params
  /\ server.db.params[S("REAC_1")].value = I(-900)

(***************************************************************************)
(* The class Create.                                                       *)
(***************************************************************************)
\* a list with exactly three items
ThreeItemList(v) == v.type = "list" /\ Len(v.items) = 3

\* what the setter of the attribute attr must have done with the value v
Validated(v, attr, exc) ==
  /\ exc = NoExc <=> ThreeItemList(v)
  /\ exc # NoExc =>
       /\ exc.type = "ValueError"
       /\ exc.attr = attr
       /\ v.type # "list" =>
            exc.msg = "The coordinates should be implemented by the list!"

\* C5: Create(a, b) and every assignment to p1 or p2 succeed exactly when
\* the value is a list of three items; any other value raises ValueError,
\* the message being that of the type check whenever the value is not a
\* list, and the constructor raises for p1 when both values are wrong.
C5_CreateValidates ==
  LET c == py.call
      h == py.heap
  IN  /\ c.op = "Create" =>
           /\ py.exc = NoExc <=> ThreeItemList(h[c.args[1]]) /\ ThreeItemList(h[c.args[2]])
           /\ py.exc = NoExc =>
                py.objs[c.obj] = [p1 |-> c.args[1], p2 |-> c.args[2]]
           /\ ~ ThreeItemList(h[c.args[1]]) => Validated(h[c.args[1]], "p1", py.exc)
           /\ ThreeItemList(h[c.args[1]]) => Validated(h[c.args[2]], "p2", py.exc)
      /\ c.op = "p1" =>
           /\ Validated(h[c.args[1]], "p1", py.exc)
           /\ py.exc = NoExc => py.objs[c.obj].p1 = c.args[1]
      /\ c.op = "p2" =>
           /\ Validated(h[c.args[1]], "p2", py.exc)
           /\ py.exc = NoExc => py.objs[c.obj].p2 = c.args[1]

\* Create(100, [100, 0]) has raised: both values are wrong, the first one a
\* scalar
C5_ScalarRejected ==
  /\ py.call.op = "Create"
  /\ py.heap[py.call.args[1]].type = "int"
  /\ ~ ThreeItemList(py.heap[py.call.args[2]])
  /\ py.exc.type = "ValueError" /\ py.exc.attr = "p1"

(***************************************************************************)
(* VM8.                                                                    *)
(***************************************************************************)
\* the coordinates of a list of the heap, in tenths
Point(ref) ==
  <<Tenths(py.heap[ref].items[1]), Tenths(py.heap[ref].items[2]),
    Tenths(py.heap[ref].items[3])>>

\* a number in units of 10^-5 rounded to four decimals, in units of 10^-4
Round4(a) == (a[2] + 5) \div 10

\* the cell of the table holds the number n, given in units of 10^-5
Holds(cell, n) == cell[1] = "d" /\ cell[2] * 1000 = n

\* the script ran with the lists it documents and has built its table
Documented == py.vars = ScriptLists /\ py.df2 # << >>

\* K3(100,0,30)-K4(-200,25,80) has D^2 = 93125 and D = 305.16 to two
\* decimals; N1(1.5,2.5,3.5)-N2(-3.7,4.6,-3) has D^2 = 73.70 and D = 8.5849
\* to four decimals; these are the distances the methods returned
DocumentedDistances ==
  /\ Dist2(Point(1), Point(2)) = 9312500
  /\ py.kp_dist = Distance(py.heap[1].items, py.heap[2].items)
  /\ round2(py.kp_dist) = Dec2(30516)
  /\ Dist2(Point(3), Point(4)) = 7370
  /\ py.node_dist = Distance(py.heap[3].items, py.heap[4].items)
  /\ Round4(py.node_dist) = 85849

\* C9 as stated: for the documented coordinates D^2 and D are the targets,
\* and the table holds in row LEN2 the target 8.5849 with the node distance
\* and in row LEN1 the target 305.16 with the keypoint distance, the ratio
\* being simulation / target.
C9_TableHoldsTargets ==
  Documented =>
    /\ DocumentedDistances
    /\ Holds(py.df2[row_names[1]]["Target"], 858490)
    /\ Holds(py.df2[row_names[1]]["Mechanical APDL"], py.node_dist[2])
    /\ Holds(py.df2[row_names[1]]["Ratio"], divide(py.node_dist, Len5(858490))[2])
    /\ Holds(py.df2[row_names[2]]["Target"], 30516000)
    /\ Holds(py.df2[row_names[2]]["Mechanical APDL"], py.kp_dist[2])
    /\ Holds(py.df2[row_names[2]]["Ratio"], divide(py.kp_dist, Len5(30516000))[2])

\* C9: for the documented coordinates D^2 and D are the targets, and the
\* table holds, each rounded to two decimals, in row LEN2 the target 8.5849
\* (as 8.58) with the node distance and in row LEN1 the target 305.16 with
\* the keypoint distance, the ratio being simulation / target.
C9_TableHoldsRoundedTargets ==
  Documented =>
    /\ DocumentedDistances
    /\ DOMAIN py.df2 = {row_names[1], row_names[2]}
    /\ py.df2[row_names[1]]["Target"] = round2(Len5(858490))
    /\ py.df2[row_names[1]]["Target"] = Dec2(858)
    /\ py.df2[row_names[1]]["Mechanical APDL"] = round2(py.node_dist)
    /\ py.df2[row_names[1]]["Ratio"] = round2(divide(py.node_dist, Len5(858490)))
    /\ py.df2[row_names[1]]["Ratio"] = Dec2(100)
    /\ py.df2[row_names[2]]["Target"] = Dec2(30516)
    /\ py.df2[row_names[2]]["Mechanical APDL"] = round2(py.kp_dist)
    /\ py.df2[row_names[2]]["Ratio"] = round2(divide(py.kp_dist, Len5(30516000)))
    /\ py.df2[row_names[2]]["Ratio"] = Dec2(100)

\* VM8 has run to its end with the documented lists
C9_TableBuilt ==
  /\ script = "VM8" /\ status = "done"
  /\ Documented
  /\ py.call.op = "DataFrame"

\* the keypoints and nodes the instance o defines, and the distance of its
\* two points
P1Of(p, o) == p.heap[p.objs[o].p1].items
P2Of(p, o) == p.heap[p.objs[o].p2].items

\* a step that leaves py.call a call of kp_distances is such a call
AfterKp ==
  py'.call.op = "kp_distances" =>
    LET o == py'.call.obj IN
    /\ py'.objs = py.objs
    /\ server'.db.kps = (I(3) :> P1Of(py, o)) @@ (I(4) :> P2Of(py, o))
    /\ py'.kp_dist = Distance(P1Of(py, o), P2Of(py, o))
    /\ server'.db.nodes = server.db.nodes

AfterNode ==
  py'.call.op = "node_distances" =>
    LET o == py'.call.obj IN
    /\ py'.objs = py.objs
    /\ server'.db.nodes = (I(1) :> P1Of(py, o)) @@ (I(2) :> P2Of(py, o))
    /\ py'.node_dist = Distance(P1Of(py, o), P2Of(py, o))
    /\ server'.db.kps = server.db.kps

\* C10: every call of kp_distances leaves exactly the keypoints 3 and 4, at
\* the instance's current p1 and p2, and returns their distance; every call
\* of node_distances does the same with the nodes 1 and 2; no other
\* statement (constructing an instance, assigning p1 or p2) changes the
\* keypoints or the nodes, which so stay those of the most recent call.
C10_ReuseKeepsNumbers ==
  [][ /\ AfterKp
      /\ AfterNode
      /\ py'.call.op \notin {"kp_distances", "node_distances"} =>
           /\ server'.db.kps = server.db.kps
           /\ server'.db.nodes = server.db.nodes
      /\ DOMAIN server'.db.kps \subseteq {I(3), I(4)}
      /\ DOMAIN server'.db.nodes \subseteq {I(1), I(2)} ]_vars

\* both methods were called, the second after p1 and p2 had been exchanged:
\* the nodes are where the keypoints are not
C10_Reused ==
  /\ py.call.op = "node_distances"
  /\ DOMAIN server.db.kps = {I(3), I(4)}
  /\ DOMAIN server.db.nodes = {I(1), I(2)}
  /\ server.db.kps[I(3)] = py.heap[1].items
  /\ server.db.nodes[I(1)] = py.heap[2].items
  /\ server.db.nodes[I(2)] = py.heap[1].items
  /\ py.node_dist = py.kp_dist

(***************************************************************************)
(* Load cases.                                                             *)
(***************************************************************************)
\* the database the k-th SOLVE of the run solved
Case(k) == server.log[k].db

\* the k-th SOLVE was issued in the solution session that the command of
\* line ln had opened
InSession(k, ln) ==
  /\ server.log[k].entered > 0
  /\ Scripts[script][server.log[k].entered].line = ln
  /\ Enters(Scripts[script][server.log[k].entered]) = "solu"

\* every element of the database carries the pressure p on its face 1
PressureOnAll(db, p) ==
  /\ Len(db.elems) > 0
  /\ DOMAIN db.pres = {I(e) : e \in 1..Len(db.elems)} \X {I(1)} \X {S("PRES")}
  /\ \A k \in DOMAIN db.pres : db.pres[k] = p

\* the node n is constrained in the degrees of freedom ds, and in no other
FixedIn(db, n, ds) ==
  LET labs == {k[2] : k \in {x \in db.fixed : x[1] = n}}
  IN  IF ds = Dofs(db) THEN labs = {S("ALL")} \/ labs = {S(d) : d \in ds}
      ELSE labs = {S(d) : d \in ds}

\* the value of a force: a blank field is zero
IsZero(v) == v \in {S(""), I(0)}

\* C11: VM15 solves three load cases in the solution session of line 152;
\* at the 1st SOLVE the pressure is 6 on all elements, there is no nodal
\* force and node 11 is fixed in all DOF; at the 2nd the pressure is 0,
\* FY = -7539.82 acts at node 1 and node 11 is fixed in all DOF; at the 3rd
\* the pressure is 1.5 = 6 / 4, the force at node 1 is zero and node 11 is
\* fixed in all DOF except ROTZ.
C11_ThreeLoadCases ==
  script = "VM15" =>
    /\ Len(server.log) <= 3
    /\ status = "done" => Len(server.log) = 3
    /\ \A k \in DOMAIN server.log :
         InSession(k, 152) /\ Dofs(Case(k)) = {"UX", "UY", "ROTZ"}
    /\ Len(server.log) >= 1 =>
         /\ PressureOnAll(Case(1), I(6))
         /\ Len(Case(1).elems) = 10
         /\ DOMAIN Case(1).loads = {}
         /\ FixedIn(Case(1), I(11), {"UX", "UY", "ROTZ"})
    /\ Len(server.log) >= 2 =>
         /\ PressureOnAll(Case(2), I(0))
         /\ DOMAIN Case(2).loads = {<<I(1), S("FY")>>}
         /\ Case(2).loads[<<I(1), S("FY")>>] = F("-7539.82")
         /\ FixedIn(Case(2), I(11), {"UX", "UY", "ROTZ"})
    /\ Len(server.log) >= 3 =>
         /\ PressureOnAll(Case(3), F("1.5"))
         /\ 4 * Tenths(F("1.5")) = Tenths(I(6))
         /\ DOMAIN Case(3).loads = {<<I(1), S("FY")>>}
         /\ IsZero(Case(3).loads[<<I(1), S("FY")>>])
         /\ FixedIn(Case(3), I(11), {"UX", "UY"})

\* VM15 has solved its third load case
C11_ThirdCaseSolved ==
  /\ script = "VM15" /\ status = "done"
  /\ Len(server.log) = 3
  /\ <<I(11), S("UX")>> \in Case(3).fixed
  /\ <<I(11), S("ROTZ")>> \notin Case(3).fixed

\* the nodal forces of the database: <<node, label>> -> value
Forces(db, fs) ==
  /\ DOMAIN db.loads = DOMAIN fs
  /\ \A k \in DOMAIN fs : db.loads[k] = fs[k]

\* the first load case of VM16: FX = 1000 at node 6 and FX = -1000 at node
\* 16, which lies 2 above node 6: no net force, a couple of 2000
Couple(db) ==
  /\ Forces(db, (<<I(6), S("FX")>> :> I(1000)) @@ (<<I(16), S("FX")>> :> I(-1000)))
  /\ Located(db, I(6)) /\ Located(db, I(16))
  /\ Tenths(db.nodes[I(16)][1]) = Tenths(db.nodes[I(6)][1])
  /\ Tenths(db.nodes[I(16)][2]) - Tenths(db.nodes[I(6)][2]) = 20
  /\ Tenths(db.nodes[I(16)][3]) = Tenths(db.nodes[I(6)][3])
  /\ db.loads[<<I(6), S("FX")>>][2] + db.loads[<<I(16), S("FX")>>][2] = 0
  /\ db.loads[<<I(6), S("FX")>>][2]
       * (Tenths(db.nodes[I(16)][2]) - Tenths(db.nodes[I(6)][2])) = 2000 * 10

\* the second load case: the FX forces are zero, FY = 150 at nodes 6 and 16
Shear(db) ==
  /\ DOMAIN db.loads = {I(6), I(16)} \X {S("FX"), S("FY")}
  /\ IsZero(db.loads[<<I(6), S("FX")>>]) /\ IsZero(db.loads[<<I(16), S("FX")>>])
  /\ db.loads[<<I(6), S("FY")>>] = I(150) /\ db.loads[<<I(16), S("FY")>>] = I(150)
  /\ db.loads[<<I(6), S("FY")>>][2] + db.loads[<<I(16), S("FY")>>][2] = 300

\* C12: VM16 solves the PLANE42 model and then the PLANE182 model twice
\* each; at the 1st SOLVE of a model the only nodal forces are FX = 1000 at
\* node 6 and FX = -1000 at node 16, a distance 2 apart (no net force, a
\* couple of 2000); at the 2nd the FX forces are zero and the only nodal
\* forces are FY = 150 at nodes 6 and 16 (300 in total).
C12_CoupleThenShear ==
  script = "VM16" =>
    /\ Len(server.log) <= 4
    /\ status = "done" => Len(server.log) = 4
    /\ \A k \in DOMAIN server.log :
         /\ Case(k).et = (I(1) :> S(IF k <= 2 THEN "PLANE42" ELSE "PLANE182"))
         /\ k \in {1, 3} => Couple(Case(k))
         /\ k \in {2, 4} => Shear(Case(k))

\* VM16 has solved both cases of both models
C12_BothModelsSolved ==
  /\ script = "VM16" /\ status = "done"
  /\ Len(server.log) = 4
  /\ Case(4).et[I(1)] = S("PLANE182")
  /\ Case(4).loads[<<I(16), S("FY")>>] = I(150)

\* the positions of the calls of line ln
CallsOf(ln) == {j \in 1..Len(Scripts[script]) : Scripts[script][j].line = ln}

\* the variable var of the script holds what the call at position i fetched
FetchedBy(var, i) ==
  /\ var \in DOMAIN client.env
  /\ client.env[var] = R(i)
  /\ i \in DOMAIN server.fetched

\* C13: VM11 issues three SOLVEs on one model, with FY at node 4 being
\* -51961.5, then -81961.5, then deleted; the deflection def_node is
\* fetched after the first SOLVE, of its results, before F2 is applied; the
\* stress strss of element 2, the rod from the middle node, is fetched from
\* an element table filled from the results of the third SOLVE.
C13_LoadUnloadOrder ==
  script = "VM11" =>
    /\ Len(server.log) <= 3
    /\ status = "done" => Len(server.log) = 3
    /\ \A k \in DOMAIN server.log :
         /\ Case(k).elems = <<<<I(1), I(4)>>, <<I(2), I(4)>>, <<I(3), I(4)>>>>
         /\ DOMAIN Case(k).nodes = {I(1), I(2), I(3), I(4)}
         /\ k = 1 => Forces(Case(k), <<I(4), S("FY")>> :> F("-51961.5"))
         /\ k = 2 => Forces(Case(k), <<I(4), S("FY")>> :> F("-81961.5"))
         /\ k = 3 => DOMAIN Case(k).loads = {}
    /\ "def_node" \in DOMAIN client.env =>
         \E i \in DOMAIN server.fetched :
           /\ FetchedBy("def_node", i)
           /\ server.fetched[i].solve = server.log[1].at
           /\ server.log[1].at < i
           /\ \A j \in CallsOf(172) : i < j
           /\ Len(server.log) >= 2 => i < server.log[2].at
           /\ Forces(server.fetched[i], <<I(4), S("FY")>> :> F("-51961.5"))
    /\ "strss" \in DOMAIN client.env =>
         \E i \in DOMAIN server.fetched :
           /\ FetchedBy("strss", i)
           /\ Len(server.log) = 3
           /\ server.fetched[i].from = "ETAB"
           /\ server.fetched[i].entnum = I(2)
           /\ server.fetched[i].solve = server.log[3].at
    /\ status = "done" => {"def_node", "strss"} \subseteq DOMAIN client.env

\* VM11 has read the residual stress
C13_ResidualRead ==
  /\ script = "VM11" /\ status = "done"
  /\ "strss" \in DOMAIN client.env /\ "def_node" \in DOMAIN client.env
  /\ Len(server.log) = 3
  /\ DOMAIN Case(3).loads = {}

\* the surface of the nodes NSEL,S,LOC,X,x selects
AtX(x) == <<S("ALL"), <<<<S("S"), S("LOC"), S("X"), I(x), S("")>>>>>>

\* the variables of VM25 that hold the results of the pressure case
PressureResults ==
  {"def_4", "rst_4_c1", "rst_6_c1", "rst_8_c1", "tst_4_c1", "tst_6_c1", "tst_8_c1"}

\* C14: in VM25 the second SOLVE solves the database that was saved as
\* MODEL before the first SOLVE and resumed after the results of the first
\* were fetched; at the second SOLVE the surface x = 4 carries the pressure
\* 1e-10 in place of the 30000 of the first, and the angular velocity is
\* 1000 about y; every result of the pressure case was fetched from the
\* first solution before the RESUME.
C14_ResumedThenRotated ==
  script = "VM25" =>
    /\ Len(server.log) <= 2
    /\ status = "done" => Len(server.log) = 2
    /\ Len(server.log) >= 1 =>
         /\ Case(1).surf[<<AtX(4), S("PRES")>>][1] = I(30000)
         /\ Case(1).omega = <<S(""), S(""), S("")>>
         /\ S("MODEL") \in DOMAIN server.files
         /\ server.files[S("MODEL")].at < server.log[1].at
         /\ server.files[S("MODEL")].db.surf = Case(1).surf
    /\ Len(server.log) >= 2 =>
         /\ server.resumed.file = S("MODEL")
         /\ server.resumed.savedAt = server.files[S("MODEL")].at
         /\ server.log[1].at < server.resumed.at
         /\ server.resumed.at < server.log[2].at
         /\ \A i \in DOMAIN server.fetched : i < server.log[2].at => i < server.resumed.at
         /\ Case(2).nodes = Case(1).nodes /\ Case(2).elems = Case(1).elems
         /\ Case(2).params = server.files[S("MODEL")].db.params
         /\ Case(2).surf[<<AtX(4), S("PRES")>>][1] = F("1e-10")
         /\ \A k \in DOMAIN Case(2).surf : Case(2).surf[k][1] # I(30000)
         /\ Case(2).omega = <<S(""), I(1000), S("")>>
    /\ \A v \in PressureResults :
         v \in DOMAIN client.env =>
           \E i \in DOMAIN server.fetched :
             /\ FetchedBy(v, i)
             /\ server.fetched[i].solve = server.log[1].at
             /\ server.resumed.at > 0 => i < server.resumed.at
    /\ server.resumed.at > 0 => PressureResults \subseteq DOMAIN client.env

\* VM25 has solved the rotation case
C14_RotationSolved ==
  /\ script = "VM25" /\ status = "done"
  /\ Len(server.log) = 2
  /\ server.resumed.at > 0
  /\ Case(2).omega[2] = I(1000)

\* the rows of the table hold the targets ts and values that were fetched
\* from the results of the k-th SOLVE, before any later SOLVE: a
\* displacement UZ, a rotation ROTY and the extreme value of a variable
FromSolve(t, k, ts) ==
  \A r \in 1..3 :
    /\ t.rows[r].target = ts[r]
    /\ \E i \in DOMAIN server.fetched :
         /\ t.rows[r].value = R(i)
         /\ server.fetched[i].solve = server.log[k].at
         /\ server.log[k].at < i
         /\ \A j \in DOMAIN server.log : j > k => i < server.log[j].at
         /\ <<server.fetched[i].entity, server.fetched[i].item1, server.fetched[i].it1num>>
              = << <<S("NODE"), S("U"), S("Z")>>, <<S("NODE"), S("ROT"), S("Y")>>,
                   <<S("VARI"), S("EXTREM"), S("VMAX")>> >>[r]

\* NLGEOM is on in the database
Stiffened(db) == "nlgeom" \in DOMAIN db.opts /\ db.opts["nlgeom"] = <<S("ON")>>

\* C15: VM21 solves first without and then with NLGEOM; the table headed
\* 'F = 0 (unstiffened)' holds the targets -0.38241, 0.0061185, -8962.7 and
\* the deflection, slope and moment fetched after the first SOLVE and before
\* the second; the table headed 'F neq 0 (stiffened)' holds the targets
\* -0.19945, 0.0032352, -4580.1 and the three values fetched after the
\* second SOLVE.
C15_TablesMatchSolutions ==
  script = "VM21" =>
    /\ Len(server.log) <= 2
    /\ Len(server.log) >= 1 => ~ Stiffened(Case(1))
    /\ Len(server.log) >= 2 => Stiffened(Case(2))
    /\ status = "done" => Len(client.out) = 2
    /\ \A x \in DOMAIN client.out :
         /\ Len(server.log) = 2
         /\ client.out[x].title = <<"F neq 0 (stiffened)", "F = 0 (unstiffened)">>[x]
         /\ x = 1 => FromSolve(client.out[x], 2,
                       <<F("-0.19945"), F("0.0032352"), F("-4580.1")>>)
         /\ x = 2 => FromSolve(client.out[x], 1,
                       <<F("-0.38241"), F("0.0061185"), F("-8962.7")>>)

\* VM21 has printed both tables
C15_BothTablesPrinted ==
  /\ script = "VM21" /\ status = "done"
  /\ Len(client.out) = 2
  /\ client.out[2].title = "F = 0 (unstiffened)"
  /\ client.out[2].rows[1].value \in {R(i) : i \in DOMAIN server.fetched}

(***************************************************************************)
(* VM298: the input PSD.                                                   *)
(***************************************************************************)
\* the PSD loop has been sent to the solver
LoopSent ==
  /\ script = "VM298"
  /\ \E x \in DOMAIN client.flushed :
       Scripts[script][client.flushed[x]].op = "pfact"

\* the floor j has its PSD table: a unit, PSDVAL for (j, j) and COVAL for
\* (j, k), j < k <= top, at every frequency point, and PFACT computed with
\* the unit force FX at node j + 1
Excited(db, j, top) ==
  /\ I(j) \in db.psd.unit
  /\ \A i \in 0..(FreqPts - 1) :
       /\ <<I(j), Xi("COPHIFF[j, j, i] * _FACT", i)>> \in db.psd.val
       /\ \A k \in (j + 1)..top :
            <<I(j), I(k), Xi("COPHIFF[j, k, i] * _FACT", i)>> \in db.psd.co
  /\ I(j) \in DOMAIN db.psd.pfact
  /\ <<I(j + 1), S("FX")>> \in DOMAIN db.psd.pfact[I(j)]
  /\ db.psd.pfact[I(j)][<<I(j + 1), S("FX")>>] = F("1.0")

\* C16: in VM298 every floor j from 1 to N = 40 has its PSD table (unit,
\* PSDVAL for (j, j), COVAL for every (j, k) with k > j at every frequency
\* point, unit force at node j + 1, PFACT), and PSDGRAPH is produced for
\* j = 1 and for j = 40.
C16_EveryFloorExcited ==
  LoopSent =>
    /\ \A j \in 1.._N : Excited(server.db, j, _N)
    /\ <<I(0), I(1)>> \in server.db.psd.graph
    /\ <<I(_N - 1), I(_N)>> \in server.db.psd.graph

(***************************************************************************)
(* td-62: inverse solving, then forward solving.                           *)
(***************************************************************************)
\* the argument of the option op that is in force in the database
Opt(db, op, pos, name) ==
  IF op \in DOMAIN db.opts THEN Arg([args |-> db.opts[op]], pos, name) ELSE S("")

\* the load step that ends at time t is solved with INVOPT,key
LoadStep(db, key, t) ==
  /\ IsStr(Opt(db, "invopt", 1, "key"), key)
  /\ IsStr(Opt(db, "time", 1, "time"), t)

\* POST1 of td-62 has read the last load step
LastSetRead ==
  /\ script = "TD62"
  /\ Len(server.sets) = 2

\* C17: td-62 solves two load steps in order, the first with INVOPT,ON and end
\* time 1.0, the second with INVOPT,OFF and end time 2.0; POST1 then reads
\* load step 1 and the last load step, and each of them exists because its
\* SOLVE was issued before in the same session of the solver.
C17_TwoLoadStepsSolved ==
  LastSetRead =>
    /\ Len(server.log) = 2
    /\ LoadStep(Case(1), "on", "1.0")
    /\ LoadStep(Case(2), "off", "2.0")
    /\ IsStr(server.sets[1].lstep, "1") /\ server.sets[1].solves >= 1
    /\ IsStr(server.sets[2].lstep, "last") /\ server.sets[2].solves >= 2
    /\ server.sets[1].results /\ server.sets[2].results

(***************************************************************************)
(* The stent: the contact between stent and plaque.                        *)
(***************************************************************************)
\* the elements of type 11, as ESEL,S,TYPE,,11 selects them
OfType11 == <<"comp", <<<<S("s"), S("type"), S(""), S("11"), S("")>>>>>>

\* the component contact2 holds the elements of type 11
IsContact2(db) ==
  /\ S("contact2") \in DOMAIN db.comps
  /\ StrIn(db.comps[S("contact2")].entity, {"ELEM", "elem"})
  /\ Elements(db, S("contact2")) = OfType11

\* the static analysis of the stent has issued its k-th SOLVE
StentSolved(k) == script = "TD25" /\ Len(server.log) >= k

\* C18: in the stent example the elements of the component contact2 (type
\* 11) are dead in the database of the first SOLVE and alive in that of the
\* second, third and fourth SOLVE: EKILL precedes the first SOLVE, EALIVE
\* lies between the first and the second, and no EKILL follows it.
C18_DeadThenAlive ==
  /\ StentSolved(1) => IsContact2(Case(1)) /\ OfType11 \in Case(1).dead
  /\ \A k \in 2..4 :
       StentSolved(k) => IsContact2(Case(k)) /\ OfType11 \notin Case(k).dead
  /\ StentSolved(2) => server.db.dead = {}

\* the fourth load step of the stent has been solved
C18_FourLoadSteps == StentSolved(4)

(***************************************************************************)
(* VM15: the constraint of node 1.                                         *)
(***************************************************************************)
\* the script has issued its first SOLVE
FirstSolved(name) == script = name /\ Len(server.log) >= 1

\* C19: in VM15 the D command issued for node 1 before the first SOLVE fixes
\* UX and ROTZ at node 1: the argument 'ROTZ' is taken as a label of a degree
\* of freedom, as it is in VM13, where D fixes UY and ROTZ at node 1, and not
\* as a field of the range of nodes.
C19_Node1FixedUxRotz ==
  /\ FirstSolved("VM15") =>
       {<<I(1), S("UX")>>, <<I(1), S("ROTZ")>>} \subseteq Case(1).fixed
  /\ FirstSolved("VM13") =>
       {<<I(1), S("UY")>>, <<I(1), S("ROTZ")>>} \subseteq Case(1).fixed

(***************************************************************************)
(* The stent: the pressure on the inner wall of the plaque.                *)
(***************************************************************************)
\* the spellings of 13.3 kPa in the units of the model
BloodPressure == {S("13.3e-3"), F("13.3e-3"), S("0.0133"), F("0.0133")}

\* the pressure value of the SF load on the component 'load' in the database
InnerWall(db) ==
  IF <<Surface(db, S("load")), S("pres")>> \in DOMAIN db.surf
    THEN db.surf[<<Surface(db, S("load")), S("pres")>>][1]
    ELSE S("")

\* C20: in the stent example the pressure value of the SF load on the
\* component 'load' is 10e-2 at the first SOLVE and the blood pressure
\* 13.3e-3 (13.3 kPa) at the fourth SOLVE.
C20_BloodPressureApplied ==
  /\ StentSolved(1) => InnerWall(Case(1)) = S("10e-2")
  /\ StentSolved(4) => InnerWall(Case(4)) \in BloodPressure

(***************************************************************************)
(* SOLVE and the solution processor.                                       *)
(***************************************************************************)
\* the commands that enter the solution processor
IsSolu(c) ==
  \/ c.op = "slashsolu"
  \/ c.op = "run" /\ StrIn(Arg(c, 1, "command"), {"/SOLU", "/solu"})

\* C21: in every script each SOLVE is executed while the session is in the
\* solution processor: the last command before it that enters or leaves a
\* processor is a /SOLU (slashsolu or run('/SOLU')), with no FINISH, /PREP7,
\* /POST1, /POST26 or /CLEAR between the two.
C21_SolveInSolution ==
  \A k \in 1..Len(server.log) :
    /\ server.log[k].routine = "solu"
    /\ server.log[k].entered \in 1..(server.log[k].at - 1)
    /\ IsSolu(Scripts[script][server.log[k].entered])

\* two SOLVEs have been issued in one session of the solution processor
C21_SharedSession ==
  \E k \in 2..Len(server.log) :
    /\ server.log[k].entered = server.log[k - 1].entered
    /\ server.log[k].entered > 0

(***************************************************************************)
(* Create: the lists when the methods run.                                 *)
(***************************************************************************)
\* a method of the instance o has just run
MethodRan(o) ==
  /\ py.call.op \in {"kp_distances", "node_distances"}
  /\ py.call.obj = o

\* C22: whenever kp_distances() or node_distances() runs, self.p1 and
\* self.p2 are lists of exactly three items, whatever constructor calls and
\* in-place modifications of the caller's lists preceded the call.
C22_ThreeItemsWhenCalled ==
  \A o \in Instances :
    MethodRan(o) =>
      /\ ThreeItemList(py.heap[py.objs[o].p1])
      /\ ThreeItemList(py.heap[py.objs[o].p2])
      /\ py.exc = NoExc

(***************************************************************************)
(* Parameters passed by name.                                              *)
(***************************************************************************)
\* where the command of line ln of the script has been executed, it has named
\* the parameters ps, all of them defined
NamedDefined(name, ln, ps) ==
  script = name =>
    \A x \in DOMAIN server.named :
      Scripts[name][server.named[x].at].line = ln =>
        server.named[x].names = ps /\ server.named[x].missing = {}

\* C23: every parameter a script passes to a command by name is defined in
\* the session when the command is executed: factr and inv_fact at the VFACT
\* commands of VM298, P_STRESS and SHEAR at the VFILL commands of vm12.py,
\* and c10, c01, c20, c11 and dd at the TBDATA of the Mooney-Rivlin table of
\* the stent example.
C23_NamedParametersDefined ==
  /\ \A x \in DOMAIN server.named : server.named[x].missing = {}
  /\ NamedDefined("VM298", 404, {S("factr")})
  /\ NamedDefined("VM298", 415, {S("inv_fact")})
  /\ NamedDefined("DocVM12", 52, {S("P_STRESS"), S("SHEAR")})
  /\ NamedDefined("DocVM12", 53, {S("P_STRESS"), S("SHEAR")})
  /\ NamedDefined("DocVM12", 97, {S("P_STRESS"), S("SHEAR")})
  /\ NamedDefined("DocVM12", 98, {S("P_STRESS"), S("SHEAR")})
  /\ NamedDefined("TD25", 100, {S("c10"), S("c01"), S("c20"), S("c11"), S("dd")})

=============================================================================
